---- MODULE Spec2Model ----
(***************************************************************************)
(* A model of the credential-to-artifact encoding pipeline of wifiqr:      *)
(* the Wi-Fi payload encoder, the security normalizer, the XML escaper,    *)
(* the Windows WLAN profile builder, the Windows connect-script assembler  *)
(* and the macOS configuration-profile builder.                            *)
(*                                                                         *)
(* Text is modelled as a sequence of one-character strings, so that        *)
(* escaping, trimming, joining and base64 are computed character by        *)
(* character, as the Python code computes them.  Chars("abc") is the       *)
(* text <<"a", "b", "c">>.                                                 *)
(***************************************************************************)
EXTENDS Integers, Sequences, FiniteSets, TLC

VARIABLES op, arg, ret, exc, uuid4, window, files, shown, written, events, remainingTime

vars == <<op, arg, ret, exc, uuid4, window, files, shown, written, events, remainingTime>>

(***************************************************************************)
(* Bounds of the model.                                                    *)
(***************************************************************************)
\* longest text handed to _escape and xml_escape on their own
MaxLen == 3
\* most whitespace characters put on each side of a security label
MaxPad == 1
\* longest list handed to the multi-network builders
MaxNetworks == 2
\* number of values a uuid4() draw can take
NumUuids == 3
\* number of events of the window a session is followed for
MaxEvents == 5
\* milliseconds that pass in one step of the clock
TickMs == 90
\* number of edits of the form a session at the form is followed for
MaxEdits == 3

(***************************************************************************)
(* Text primitives (Python str).                                           *)
(***************************************************************************)
Chars(s) == [i \in 1..Len(s) |-> SubSeq(s, i, i)]

\* all texts over alphabet of length at most n
TextsUpTo(alphabet, n) == UNION {[1..k -> alphabet] : k \in 0..n}

RECURSIVE Concat(_)
\* "".join(parts)
Concat(parts) == IF parts = <<>> THEN <<>> ELSE Head(parts) \o Concat(Tail(parts))

StartsWith(s, prefix) ==
    /\ Len(prefix) <= Len(s)
    /\ SubSeq(s, 1, Len(prefix)) = prefix

Drop(s, n) == SubSeq(s, n + 1, Len(s))

RECURSIVE Replace(_, _, _)
\* str.replace(old, new) for a non-empty old: non-overlapping occurrences,
\* found left to right, each replaced by new; the scan resumes after the
\* replaced occurrence, so the text of new is never scanned again.
Replace(s, old, new) ==
    IF s = <<>> THEN <<>>
    ELSE IF StartsWith(s, old) THEN new \o Replace(Drop(s, Len(old)), old, new)
    ELSE <<Head(s)>> \o Replace(Tail(s), old, new)

LowerLetters == Chars("abcdefghijklmnopqrstuvwxyz")
UpperLetters == Chars("ABCDEFGHIJKLMNOPQRSTUVWXYZ")

UpperChar(c) ==
    IF \E i \in 1..26 : LowerLetters[i] = c
    THEN UpperLetters[CHOOSE i \in 1..26 : LowerLetters[i] = c]
    ELSE c

\* str.upper()
Upper(s) == [i \in 1..Len(s) |-> UpperChar(s[i])]

\* the characters str.strip() removes
Whitespace == {" ", "\t", "\n", "\r", "\f"}

RECURSIVE LStrip(_)
LStrip(s) == IF s # <<>> /\ Head(s) \in Whitespace THEN LStrip(Tail(s)) ELSE s

RECURSIVE RStrip(_)
RStrip(s) ==
    IF s # <<>> /\ s[Len(s)] \in Whitespace THEN RStrip(SubSeq(s, 1, Len(s) - 1)) ELSE s

\* str.strip()
Strip(s) == RStrip(LStrip(s))

LowerChar(c) ==
    IF \E i \in 1..26 : UpperLetters[i] = c
    THEN LowerLetters[CHOOSE i \in 1..26 : UpperLetters[i] = c]
    ELSE c

\* str.lower()
Lower(s) == [i \in 1..Len(s) |-> LowerChar(s[i])]

\* the position of the first occurrence of pattern in text at or after
\* position from, 0 when there is none
IndexOf(text, pattern, from) ==
    LET hits == { i \in from..(Len(text) - Len(pattern) + 1) :
                    /\ text[i] = pattern[1]
                    /\ SubSeq(text, i, i + Len(pattern) - 1) = pattern }
    IN  IF hits = {} THEN 0 ELSE CHOOSE i \in hits : \A j \in hits : i <= j

Contains(text, pattern) == IndexOf(text, pattern, 1) # 0

\* "true" if flag else "false"
BoolText(flag) == IF flag THEN Chars("true") ELSE Chars("false")

(***************************************************************************)
(* constants.py                                                            *)
(***************************************************************************)
SECURITY_OPTIONS == <<Chars("WPA/WPA2/WPA3"), Chars("WEP"), Chars("None")>>

SECURITY_ALIASES ==
    (Chars("WPA/WPA2/WPA3") :> Chars("WPA")) @@
    (Chars("WPA2") :> Chars("WPA")) @@
    (Chars("WPA3") :> Chars("WPA")) @@
    (Chars("OPEN") :> Chars("NOPASS")) @@
    (Chars("NONE") :> Chars("NOPASS")) @@
    (Chars("NO PASSWORD") :> Chars("NOPASS"))

\* (auth, encryption, key_type); <<>> stands for a key_type of None
WINDOWS_SECURITY_MAP ==
    (Chars("NOPASS") :> <<Chars("open"), Chars("none"), <<>>>>) @@
    (Chars("WEP") :> <<Chars("open"), Chars("WEP"), Chars("networkKey")>>)

WINDOWS_SECURITY_DEFAULT == <<Chars("WPA2PSK"), Chars("AES"), Chars("passPhrase")>>

MACOS_SECURITY_MAP ==
    (Chars("NOPASS") :> Chars("None")) @@
    (Chars("WEP") :> Chars("WEP"))

MACOS_SECURITY_DEFAULT == Chars("WPA")

PREVIEW_RESIZE_THRESHOLD == 10

\* dict.get(key, default)
DictGet(dict, key, default) == IF key \in DOMAIN dict THEN dict[key] ELSE default

(***************************************************************************)
(* services/wifi_payload.py                                                *)
(***************************************************************************)
\* _escape with the backslash replaced last instead of first: the
\* backslashes put before ';', ',' and ':' are escaped a second time
_escape_backslash_last(value) ==
    Replace(Replace(Replace(Replace(value,
        <<";">>, <<"\\", ";">>),
        <<",">>, <<"\\", ",">>),
        <<":">>, <<"\\", ":">>),
        <<"\\">>, <<"\\", "\\">>)

_escape(value) ==
    Replace(Replace(Replace(Replace(value,
        <<"\\">>, <<"\\", "\\">>),
        <<";">>, <<"\\", ";">>),
        <<",">>, <<"\\", ",">>),
        <<":">>, <<"\\", ":">>)

\* normalize_security without the strip()
normalize_security_no_strip(value) ==
    LET key == Upper(value)
    IN  DictGet(SECURITY_ALIASES, key, key)

normalize_security(value) ==
    LET key == Strip(Upper(value))
    IN  DictGet(SECURITY_ALIASES, key, key)

\* security_for_qr without the lower-case nopass of the open case
security_for_qr_no_nopass(value) == normalize_security(value)

security_for_qr(value) ==
    LET normalized == normalize_security(value)
    IN  IF normalized = Chars("NOPASS") THEN Chars("nopass") ELSE normalized

is_open_security(value) == normalize_security(value) = Chars("NOPASS")

\* build_wifi_payload with the password trimmed like the SSID
build_wifi_payload_strip_password(config) ==
    LET ssid == _escape(Strip(config.ssid))
        password == _escape(Strip(config.password))
        security == security_for_qr(config.security)
        hidden == BoolText(config.hidden)
    IN  IF security = Chars("nopass")
        THEN Chars("WIFI:T:nopass;S:") \o ssid \o Chars(";H:") \o hidden \o Chars(";;")
        ELSE Chars("WIFI:T:") \o security \o Chars(";S:") \o ssid
                 \o Chars(";P:") \o password \o Chars(";H:") \o hidden \o Chars(";;")

build_wifi_payload(config) ==
    LET ssid == _escape(Strip(config.ssid))
        password == _escape(config.password)
        security == security_for_qr(config.security)
        hidden == BoolText(config.hidden)
    IN  IF security = Chars("nopass")
        THEN Chars("WIFI:T:nopass;S:") \o ssid \o Chars(";H:") \o hidden \o Chars(";;")
        ELSE Chars("WIFI:T:") \o security \o Chars(";S:") \o ssid
                 \o Chars(";P:") \o password \o Chars(";H:") \o hidden \o Chars(";;")

(***************************************************************************)
(* services/xml_utils.py                                                   *)
(***************************************************************************)
\* xml_escape with the ampersand replaced last instead of first: the
\* ampersands of the entities put for < > " ' are escaped a second time
xml_escape_ampersand_last(value) ==
    Replace(Replace(Replace(Replace(Replace(value,
        <<"<">>, Chars("&lt;")),
        <<">">>, Chars("&gt;")),
        <<"\"">>, Chars("&quot;")),
        <<"'">>, Chars("&apos;")),
        <<"&">>, Chars("&amp;"))

xml_escape(value) ==
    Replace(Replace(Replace(Replace(Replace(value,
        <<"&">>, Chars("&amp;")),
        <<"<">>, Chars("&lt;")),
        <<">">>, Chars("&gt;")),
        <<"\"">>, Chars("&quot;")),
        <<"'">>, Chars("&apos;"))

(***************************************************************************)
(* services/wifi_profiles.py                                               *)
(***************************************************************************)
\* _security_to_profile looking the label up as given, not normalized
_security_to_profile_raw_label(config) ==
    DictGet(WINDOWS_SECURITY_MAP, config.security, WINDOWS_SECURITY_DEFAULT)

\* _security_to_profile taking a network without a password for an open one
_security_to_profile_open_without_password(config) ==
    LET security == normalize_security(config.security)
    IN  IF config.password = <<>>
        THEN WINDOWS_SECURITY_MAP[Chars("NOPASS")]
        ELSE DictGet(WINDOWS_SECURITY_MAP, security, WINDOWS_SECURITY_DEFAULT)

_security_to_profile(config) ==
    LET security == normalize_security(config.security)
    IN  DictGet(WINDOWS_SECURITY_MAP, security, WINDOWS_SECURITY_DEFAULT)

build_wlan_profile_xml(config) ==
    LET profile == _security_to_profile(config)
        auth == profile[1]
        encryption == profile[2]
        key_type == profile[3]
        ssid == xml_escape(config.ssid)
        password == xml_escape(config.password)
        hidden == BoolText(config.hidden)
        \* "if key_type": None is falsy, and so would an empty text be
        key_material ==
            IF key_type # <<>>
            THEN Chars("<sharedKey><keyType>") \o key_type
                     \o Chars("</keyType><protected>false</protected>")
                     \o Chars("<keyMaterial>") \o password
                     \o Chars("</keyMaterial></sharedKey>")
            ELSE <<>>
    IN  Chars("<?xml version=\"1.0\"?>")
        \o Chars("<WLANProfile xmlns=\"http://www.microsoft.com/networking/WLAN/profile/v1\">")
        \o Chars("<name>") \o ssid \o Chars("</name>")
        \o Chars("<SSIDConfig>")
        \o Chars("<SSID>")
        \o Chars("<name>") \o ssid \o Chars("</name>")
        \o Chars("</SSID>")
        \o Chars("<nonBroadcast>") \o hidden \o Chars("</nonBroadcast>")
        \o Chars("</SSIDConfig>")
        \o Chars("<connectionType>ESS</connectionType>")
        \o Chars("<connectionMode>auto</connectionMode>")
        \o Chars("<MSM>")
        \o Chars("<security>")
        \o Chars("<authEncryption>")
        \o Chars("<authentication>") \o auth \o Chars("</authentication>")
        \o Chars("<encryption>") \o encryption \o Chars("</encryption>")
        \o Chars("<useOneX>false</useOneX>")
        \o Chars("</authEncryption>")
        \o key_material
        \o Chars("</security>")
        \o Chars("</MSM>")
        \o Chars("</WLANProfile>")

(***************************************************************************)
(* Python builtins used by services/windows_script.py                      *)
(***************************************************************************)
\* the ASCII characters of code points 32..95 and 97..126, in order (the
\* grave accent, 96, occurs in no text of the model)
AsciiLow == Chars(" !\"#$%&'()*+,-./0123456789:;<=>?@ABCDEFGHIJKLMNOPQRSTUVWXYZ[\\]^_")
AsciiHigh == Chars("abcdefghijklmnopqrstuvwxyz{|}~")

\* the code point of an ASCII character
Ord ==
    [c \in {AsciiLow[i] : i \in 1..Len(AsciiLow)}
           \cup {AsciiHigh[i] : i \in 1..Len(AsciiHigh)}
           \cup {"\t", "\n", "\f", "\r"} |->
        CASE c = "\t" -> 9
          [] c = "\n" -> 10
          [] c = "\f" -> 12
          [] c = "\r" -> 13
          [] \E i \in 1..Len(AsciiLow) : AsciiLow[i] = c ->
                31 + (CHOOSE i \in 1..Len(AsciiLow) : AsciiLow[i] = c)
          [] OTHER -> 96 + (CHOOSE i \in 1..Len(AsciiHigh) : AsciiHigh[i] = c)]

\* str.encode("utf-8"): an ASCII character is the one byte of its code point
Utf8Encode(s) == [i \in 1..Len(s) |-> Ord[s[i]]]

Base64Alphabet ==
    Chars("ABCDEFGHIJKLMNOPQRSTUVWXYZabcdefghijklmnopqrstuvwxyz0123456789+/")

\* base64.b64encode(data).decode("ascii"): each group of three bytes gives
\* four characters of six bits each; a last group of one or two bytes is
\* filled with zero bits and its missing characters are written "="
b64encode(data) ==
    LET n == Len(data)
        byte(g, i) == IF 3 * g + i <= n THEN data[3 * g + i] ELSE 0
        sextet(g, j) ==
            CASE j = 0 -> byte(g, 1) \div 4
              [] j = 1 -> (byte(g, 1) % 4) * 16 + byte(g, 2) \div 16
              [] j = 2 -> (byte(g, 2) % 16) * 4 + byte(g, 3) \div 64
              [] j = 3 -> byte(g, 3) % 64
        char(g, j) ==
            IF (j = 2 /\ 3 * g + 2 > n) \/ (j = 3 /\ 3 * g + 3 > n)
            THEN "="
            ELSE Base64Alphabet[sextet(g, j) + 1]
    IN  [k \in 1..(4 * ((n + 2) \div 3)) |-> char((k - 1) \div 4, (k - 1) % 4)]

Digits == Chars("0123456789")

RECURSIVE IntToStr(_)
\* str(n) of a natural number, as an f-string renders it
IntToStr(n) == IF n < 10 THEN <<Digits[n + 1]>> ELSE IntToStr(n \div 10) \o <<Digits[(n % 10) + 1]>>

RECURSIVE Join(_, _)
\* sep.join(lines)
Join(sep, lines) ==
    IF lines = <<>> THEN <<>>
    ELSE IF Len(lines) = 1 THEN lines[1]
    ELSE lines[1] \o sep \o Join(sep, Tail(lines))

CRLF == <<"\r", "\n">>

(***************************************************************************)
(* services/windows_script.py                                              *)
(***************************************************************************)
ScriptExport(ssid, content) == [ssid |-> ssid, content |-> content]

\* _profile_script_block with the temp file deleted before the profile is
\* added from it
_profile_script_block_delete_first(profile_path, profile_xml) ==
    LET xml_b64 == b64encode(Utf8Encode(profile_xml))
    IN  << Chars("set \"PROFILE_PATH=") \o profile_path \o Chars("\""),
           Chars("powershell -NoProfile -ExecutionPolicy Bypass -Command ")
               \o Chars("\"$xml=[System.Text.Encoding]::UTF8.GetString([System.Convert]::FromBase64String('")
               \o xml_b64 \o Chars("')); ")
               \o Chars("Set-Content -LiteralPath \\\"%PROFILE_PATH%\\\" -Value $xml -Encoding UTF8\""),
           Chars("del /f /q \"%PROFILE_PATH%\""),
           Chars("netsh wlan add profile filename=\"%PROFILE_PATH%\" user=all") >>

_profile_script_block(profile_path, profile_xml) ==
    LET xml_b64 == b64encode(Utf8Encode(profile_xml))
    IN  << Chars("set \"PROFILE_PATH=") \o profile_path \o Chars("\""),
           Chars("powershell -NoProfile -ExecutionPolicy Bypass -Command ")
               \o Chars("\"$xml=[System.Text.Encoding]::UTF8.GetString([System.Convert]::FromBase64String('")
               \o xml_b64 \o Chars("')); ")
               \o Chars("Set-Content -LiteralPath \\\"%PROFILE_PATH%\\\" -Value $xml -Encoding UTF8\""),
           Chars("netsh wlan add profile filename=\"%PROFILE_PATH%\" user=all"),
           Chars("del /f /q \"%PROFILE_PATH%\"") >>

ScriptHeader == <<Chars("@echo off"), Chars("setlocal EnableExtensions DisableDelayedExpansion")>>

build_windows_connect_script(config) ==
    LET ssid == config.ssid
        profile_xml == build_wlan_profile_xml(config)
        lines == ScriptHeader
                 \o _profile_script_block(Chars("%TEMP%\\wifi-profile.xml"), profile_xml)
                 \o <<Chars("netsh wlan connect name=\"") \o ssid \o Chars("\"")>>
                 \o <<Chars("endlocal")>>
        script == Join(CRLF, lines) \o CRLF
    IN  ScriptExport(ssid, script)

RECURSIVE ProfileBlocks(_, _)
\* the lines the loop "for idx, config in enumerate(configs, start=1)" has
\* appended after its first idx configs
ProfileBlocks(configs, idx) ==
    IF idx = 0 THEN <<>>
    ELSE LET config == configs[idx]
             profile_xml == build_wlan_profile_xml(config)
             temp_name == Chars("wifi-profile-") \o IntToStr(idx) \o Chars(".xml")
         IN  ProfileBlocks(configs, idx - 1)
             \o _profile_script_block(Chars("%TEMP%\\") \o temp_name, profile_xml)

\* build_windows_connect_script_multi connecting to the first network of
\* the list
build_windows_connect_script_multi_connect_first(configs) ==
    LET lines0 == ScriptHeader \o ProfileBlocks(configs, Len(configs))
        last_ssid == configs[1].ssid
        lines == lines0
                 \o <<Chars("netsh wlan connect name=\"") \o last_ssid \o Chars("\"")>>
                 \o <<Chars("endlocal")>>
        script == Join(CRLF, lines) \o CRLF
    IN  ScriptExport(last_ssid, script)

\* the value build_windows_connect_script_multi returns for a non-empty list
build_windows_connect_script_multi(configs) ==
    LET lines0 == ScriptHeader \o ProfileBlocks(configs, Len(configs))
        last_ssid == configs[Len(configs)].ssid
        lines == lines0
                 \o <<Chars("netsh wlan connect name=\"") \o last_ssid \o Chars("\"")>>
                 \o <<Chars("endlocal")>>
        script == Join(CRLF, lines) \o CRLF
    IN  ScriptExport(last_ssid, script)

(***************************************************************************)
(* services/macos_profile.py                                               *)
(***************************************************************************)
MacProfileExport(identifier, content) == [identifier |-> identifier, content |-> content]

\* str(uuid.uuid4()) when the draw is the n-th value of the pool
UuidText(n) == Chars("00000000-0000-4000-8000-00000000000") \o IntToStr(n)

\* _build_wifi_payload writing the Password key whenever a password is given
_build_wifi_payload_password_if_given(config, payload_identifier, wifi_uuid) ==
    LET ssid == xml_escape(config.ssid)
        password == xml_escape(config.password)
        hidden == BoolText(config.hidden)
        security == normalize_security(config.security)
        encryption == DictGet(MACOS_SECURITY_MAP, security, MACOS_SECURITY_DEFAULT)
        password_block ==
            IF password # <<>>
            THEN Chars("<key>Password</key><string>") \o password \o Chars("</string>")
            ELSE <<>>
    IN  Chars("<dict>")
        \o Chars("<key>PayloadType</key><string>com.apple.wifi.managed</string>")
        \o Chars("<key>PayloadVersion</key><integer>1</integer>")
        \o Chars("<key>PayloadIdentifier</key><string>") \o payload_identifier \o Chars("</string>")
        \o Chars("<key>PayloadUUID</key><string>") \o wifi_uuid \o Chars("</string>")
        \o Chars("<key>PayloadDisplayName</key><string>WiFi ") \o ssid \o Chars("</string>")
        \o Chars("<key>SSID_STR</key><string>") \o ssid \o Chars("</string>")
        \o Chars("<key>HIDDEN_NETWORK</key><") \o hidden \o Chars("/>")
        \o Chars("<key>EncryptionType</key><string>") \o encryption \o Chars("</string>")
        \o password_block
        \o Chars("</dict>")

_build_wifi_payload(config, payload_identifier, wifi_uuid) ==
    LET ssid == xml_escape(config.ssid)
        password == xml_escape(config.password)
        hidden == BoolText(config.hidden)
        security == normalize_security(config.security)
        encryption == DictGet(MACOS_SECURITY_MAP, security, MACOS_SECURITY_DEFAULT)
        password_block ==
            IF encryption # Chars("None")
            THEN Chars("<key>Password</key><string>") \o password \o Chars("</string>")
            ELSE <<>>
    IN  Chars("<dict>")
        \o Chars("<key>PayloadType</key><string>com.apple.wifi.managed</string>")
        \o Chars("<key>PayloadVersion</key><integer>1</integer>")
        \o Chars("<key>PayloadIdentifier</key><string>") \o payload_identifier \o Chars("</string>")
        \o Chars("<key>PayloadUUID</key><string>") \o wifi_uuid \o Chars("</string>")
        \o Chars("<key>PayloadDisplayName</key><string>WiFi ") \o ssid \o Chars("</string>")
        \o Chars("<key>SSID_STR</key><string>") \o ssid \o Chars("</string>")
        \o Chars("<key>HIDDEN_NETWORK</key><") \o hidden \o Chars("/>")
        \o Chars("<key>EncryptionType</key><string>") \o encryption \o Chars("</string>")
        \o password_block
        \o Chars("</dict>")

\* the plist both builders wrap their payloads in
MobileconfigContent(payloads, identifier, profile_uuid) ==
    Chars("<?xml version=\"1.0\" encoding=\"UTF-8\"?>")
    \o Chars("<!DOCTYPE plist PUBLIC \"-//Apple//DTD PLIST 1.0//EN\" ")
    \o Chars("\"http://www.apple.com/DTDs/PropertyList-1.0.dtd\">")
    \o Chars("<plist version=\"1.0\">")
    \o Chars("<dict>")
    \o Chars("<key>PayloadContent</key>")
    \o Chars("<array>")
    \o payloads
    \o Chars("</array>")
    \o Chars("<key>PayloadType</key><string>Configuration</string>")
    \o Chars("<key>PayloadVersion</key><integer>1</integer>")
    \o Chars("<key>PayloadIdentifier</key><string>") \o identifier \o Chars("</string>")
    \o Chars("<key>PayloadUUID</key><string>") \o profile_uuid \o Chars("</string>")
    \o Chars("<key>PayloadDisplayName</key><string>WifiQR Wi-Fi</string>")
    \o Chars("<key>PayloadOrganization</key><string>WifiQR</string>")
    \o Chars("<key>PayloadRemovalDisallowed</key><false/>")
    \o Chars("</dict>")
    \o Chars("</plist>")

\* draws are the values of the uuid4() calls, in the order they are made
build_macos_mobileconfig(config, draws) ==
    LET profile_uuid == UuidText(draws[1])
        wifi_uuid == UuidText(draws[2])
        identifier == Chars("com.wifiqr.profile.") \o profile_uuid
        payload == _build_wifi_payload(config, identifier \o Chars(".wifi"), wifi_uuid)
    IN  MacProfileExport(identifier, MobileconfigContent(payload, identifier, profile_uuid))

\* build_macos_mobileconfig_multi with a loop that stops before the last
\* network
build_macos_mobileconfig_multi_skip_last(configs, draws) ==
    LET profile_uuid == UuidText(draws[1])
        identifier == Chars("com.wifiqr.profile.") \o profile_uuid
        payloads ==
            [i \in 1..(Len(configs) - 1) |->
                LET wifi_uuid == UuidText(draws[i + 1])
                IN  _build_wifi_payload(configs[i],
                        identifier \o Chars(".wifi.") \o wifi_uuid, wifi_uuid)]
    IN  MacProfileExport(identifier,
            MobileconfigContent(Concat(payloads), identifier, profile_uuid))

\* build_macos_mobileconfig_multi naming every payload as the single-network
\* builder does, without the payload's own UUID
build_macos_mobileconfig_multi_shared_identifier(configs, draws) ==
    LET profile_uuid == UuidText(draws[1])
        identifier == Chars("com.wifiqr.profile.") \o profile_uuid
        payloads ==
            [i \in 1..Len(configs) |->
                LET wifi_uuid == UuidText(draws[i + 1])
                IN  _build_wifi_payload(configs[i], identifier \o Chars(".wifi"), wifi_uuid)]
    IN  MacProfileExport(identifier,
            MobileconfigContent(Concat(payloads), identifier, profile_uuid))

\* the value build_macos_mobileconfig_multi returns for a non-empty list
build_macos_mobileconfig_multi(configs, draws) ==
    LET profile_uuid == UuidText(draws[1])
        identifier == Chars("com.wifiqr.profile.") \o profile_uuid
        payloads ==
            [i \in 1..Len(configs) |->
                LET wifi_uuid == UuidText(draws[i + 1])
                IN  _build_wifi_payload(configs[i],
                        identifier \o Chars(".wifi.") \o wifi_uuid, wifi_uuid)]
    IN  MacProfileExport(identifier,
            MobileconfigContent(Concat(payloads), identifier, profile_uuid))

(***************************************************************************)
(* services/qr_service.py                                                  *)
(***************************************************************************)
\* Python's None, kept apart from every text: no text has an element of
\* more than one character
None == <<"None">>

DEFAULT_QR_SIZE == 640

\* a PIL image object: id tells objects apart, shows says what is drawn
Image(id, width, height, shows) ==
    [id |-> id, width |-> width, height |-> height, shows |-> shows]

RECURSIVE a2b_base64(_, _, _, _, _, _)
\* binascii.a2b_base64(data, strict_mode=True) from character i on:
\* quad_pos is the place in the group of four, pads the padding seen in
\* the group, padding_started whether a "=" has been read, digits the
\* six-bit values read
a2b_base64(data, i, quad_pos, pads, padding_started, digits) ==
    IF i > Len(data)
    THEN IF quad_pos # 0
         THEN [raised |-> "binascii.Error", digits |-> <<>>]
         ELSE [raised |-> "none", digits |-> digits]
    ELSE IF data[i] = "="
    THEN IF quad_pos >= 2 /\ quad_pos + pads + 1 >= 4
         THEN IF i < Len(data)
              THEN [raised |-> "binascii.Error", digits |-> <<>>]
              ELSE [raised |-> "none", digits |-> digits]
         ELSE a2b_base64(data, i + 1, quad_pos,
                         IF quad_pos >= 2 THEN pads + 1 ELSE pads, TRUE, digits)
    ELSE IF \A k \in 1..Len(Base64Alphabet) : Base64Alphabet[k] # data[i]
    THEN [raised |-> "binascii.Error", digits |-> <<>>]
    ELSE IF padding_started
    THEN [raised |-> "binascii.Error", digits |-> <<>>]
    ELSE a2b_base64(data, i + 1, (quad_pos + 1) % 4, 0, FALSE,
                    Append(digits,
                           (CHOOSE k \in 1..Len(Base64Alphabet) : Base64Alphabet[k] = data[i]) - 1))

\* the bytes that a sequence of six-bit values holds: three for each four
\* values, one for a last two and two for a last three
BytesOfDigits(digits) ==
    LET n == Len(digits)
        bits == [k \in 1..(6 * n) |-> (digits[((k - 1) \div 6) + 1] \div (2 ^ (5 - ((k - 1) % 6)))) % 2]
        byte(b) ==
            bits[8 * b + 1] * 128 + bits[8 * b + 2] * 64 + bits[8 * b + 3] * 32
            + bits[8 * b + 4] * 16 + bits[8 * b + 5] * 8 + bits[8 * b + 6] * 4
            + bits[8 * b + 7] * 2 + bits[8 * b + 8]
    IN  [b \in 1..((6 * n) \div 8) |-> byte(b - 1)]

\* base64.b64decode(s, validate=True) of a str: a character outside ASCII
\* is a plain ValueError, a leading "=" and every fault of the strict
\* decoder a binascii.Error
b64decode(s) ==
    IF \E i \in 1..Len(s) : s[i] \notin DOMAIN Ord
    THEN [raised |-> "ValueError",
          message |-> "string argument should contain only ASCII characters",
          bytes |-> <<>>]
    ELSE IF s # <<>> /\ s[1] = "="
    THEN [raised |-> "binascii.Error", message |-> "Leading padding not allowed", bytes |-> <<>>]
    ELSE LET r == a2b_base64(s, 1, 0, 0, FALSE, <<>>)
         IN  IF r.raised # "none"
             THEN [raised |-> r.raised, message |-> "Invalid base64-encoded string", bytes |-> <<>>]
             ELSE [raised |-> "none", message |-> "", bytes |-> BytesOfDigits(r.digits)]

\* the files Image.open can load.  Which byte strings are images is
\* Pillow's business; the model has one, the three bytes of "PNG"
ImageFiles == {Utf8Encode(Chars("PNG"))}

\* generate_qr_image(payload, size, center_image_data) for a size that is
\* not zero: what it raises and the image it returns
generate_qr_image(payload, size, center_image_data) ==
    LET qr == Image(1, size, size, <<"qr", payload>>)
        decoded == b64decode(center_image_data)
    IN  IF center_image_data = None \/ center_image_data = <<>>
        THEN [raised |-> "none", message |-> "", image |-> qr]
        ELSE IF decoded.raised = "binascii.Error"
        THEN [raised |-> "ValueError",
              message |-> "Center image data is not valid base64.", image |-> None]
        ELSE IF decoded.raised # "none"
        THEN [raised |-> decoded.raised, message |-> decoded.message, image |-> None]
        ELSE IF decoded.bytes \notin ImageFiles
        THEN [raised |-> "ValueError",
              message |-> "Center image data is not a valid image.", image |-> None]
        ELSE [raised |-> "none", message |-> "",
              image |-> Image(1, size, size, <<"qr", payload, "center", decoded.bytes>>)]

(***************************************************************************)
(* ui/main_window.py                                                       *)
(***************************************************************************)
HEADER_TEXT_PADDING == 16

PREVIEW_DEBOUNCE_MS == 180

\* _compose_qr_with_header without header.strip()
_compose_qr_with_header_no_strip(image, header, bbox) ==
    LET text_width == bbox[3] - bbox[1]
        text_height == bbox[4] - bbox[2]
        padding == HEADER_TEXT_PADDING * 2
        new_width == image.width
        new_height == image.height + text_height + padding * 2
        y_offset == text_height + padding * 2
        x == (new_width - text_width) \div 2
        y == padding
    IN  IF header = <<>>
        THEN image
        ELSE Image(image.id + 1, new_width, new_height,
                   <<"header", header, x, y, "image", image.shows, 0, y_offset>>)

\* bbox is what draw.textbbox((0, 0), header, font=font) measures; the
\* new image is another object than the one given
_compose_qr_with_header(image, header, bbox) ==
    LET stripped == Strip(header)
        text_width == bbox[3] - bbox[1]
        text_height == bbox[4] - bbox[2]
        padding == HEADER_TEXT_PADDING * 2
        new_width == image.width
        new_height == image.height + text_height + padding * 2
        y_offset == text_height + padding * 2
        x == (new_width - text_width) \div 2
        y == padding
    IN  IF stripped = <<>>
        THEN image
        ELSE Image(image.id + 1, new_width, new_height,
                   <<"header", stripped, x, y, "image", image.shows, 0, y_offset>>)

\* WifiConfig(...) of services/wifi_payload.py
WifiConfig(location, ssid, password, security, hidden, image_data) ==
    [location |-> location, ssid |-> ssid, password |-> password,
     security |-> security, hidden |-> hidden, image_data |-> image_data]

\* None in a place that holds a pixmap
NoPixmap == Image(0, 0, 0, <<>>)

NO_SEARCH_INDEX == -1

\* the window as __init__ leaves it.  The six *_input fields are what the
\* form widgets hold, network_table the rows of the table, selected the
\* rows with a selected item, actions_enabled the state _toggle_actions
\* gives the six action buttons, _preview_timer whether the single-shot
\* timer is running (__init__ ends with _refresh_preview(), which starts it),
\* search_input the text of the search box, _search_matches the rows of
\* the last search and _search_index the place in them; rows are counted
\* from 0 there, as in the code
MainWindow ==
    [ location_input |-> <<>>,
      ssid_input |-> <<>>,
      password_input |-> <<>>,
      security_input |-> SECURITY_OPTIONS[1],
      hidden_input |-> FALSE,
      show_header_input |-> TRUE,
      image_path_display |-> <<>>,
      _config |-> WifiConfig(<<>>, <<>>, <<>>, Chars("WPA"), FALSE, None),
      network_table |-> <<>>,
      selected |-> {},
      _current_pixmap |-> NoPixmap,
      _current_payload |-> <<>>,
      _scaled_pixmap |-> NoPixmap,
      _last_header_state |-> FALSE,
      _last_location |-> <<>>,
      _last_image_data |-> None,
      _current_save_path |-> None,
      _last_preview_size |-> <<-1, -1>>,
      preview_label |-> [text |-> <<>>, pixmap |-> NoPixmap],
      payload_label |-> <<>>,
      actions_enabled |-> TRUE,
      _preview_timer |-> TRUE,
      search_input |-> <<>>,
      _search_matches |-> <<>>,
      _search_index |-> NO_SEARCH_INDEX ]

\* a message box: QMessageBox.critical / information (self, title, text)
MessageBox(kind, title, text) == [kind |-> kind, title |-> title, text |-> text]

\* a file an export handler wrote: the file holds what the encoders make
\* of the networks named
Written(path, kind, configs) == [path |-> path, kind |-> kind, configs |-> configs]

\* QComboBox.setCurrentText(text) on a combo box that is not editable and
\* holds SECURITY_OPTIONS: the text becomes current when it is one of the
\* items, otherwise the current item stays
setCurrentText(current, text) ==
    IF \E k \in 1..Len(SECURITY_OPTIONS) : SECURITY_OPTIONS[k] = text THEN text ELSE current

\* _update_config that leaves the password of the config as it is
_update_config_without_password(w) ==
    [w EXCEPT !._config =
        [w._config EXCEPT !.location = Strip(w.location_input),
                          !.ssid = Strip(w.ssid_input),
                          !.security = w.security_input,
                          !.hidden = w.hidden_input]]

_update_config(w) ==
    [w EXCEPT !._config =
        [w._config EXCEPT !.location = Strip(w.location_input),
                          !.ssid = Strip(w.ssid_input),
                          !.password = w.password_input,
                          !.security = w.security_input,
                          !.hidden = w.hidden_input]]

\* _set_form_from_config; its last line, _refresh_preview(), starts the timer
_set_form_from_config(w, config) ==
    [w EXCEPT !.location_input = config.location,
              !.ssid_input = config.ssid,
              !.password_input = config.password,
              !.security_input = setCurrentText(w.security_input, config.security),
              !.hidden_input = config.hidden,
              !.image_path_display =
                  IF config.image_data # None /\ config.image_data # <<>>
                  THEN Chars("(Image loaded from saved network)")
                  ELSE <<>>,
              !._config = config,
              !._preview_timer = TRUE]

\* _add_or_update_row(config) with row None: the row appended holds the
\* location and the image data in its first item, the SSID, the password,
\* a combo box of SECURITY_OPTIONS and a check box; the password widget
\* has a label whose isVisible property is False and a button whose
\* lambda holds row, the number rowCount() gave (toggle_row, from 0);
\* row_hidden is what setRowHidden last said of the row
_add_or_update_row(network_table, config) ==
    Append(network_table,
           [location |-> config.location,
            image_data |-> config.image_data,
            ssid |-> config.ssid,
            password |-> config.password,
            security |-> setCurrentText(SECURITY_OPTIONS[1], config.security),
            hidden |-> config.hidden,
            toggle_row |-> Len(network_table),
            isVisible |-> FALSE,
            row_hidden |-> FALSE])

\* _row_to_config(row) of a row that has its items
_row_to_config(row) ==
    WifiConfig(Strip(row.location), Strip(row.ssid),
               row.password,
               IF row.security = <<>> THEN SECURITY_OPTIONS[1] ELSE row.security,
               row.hidden,
               row.image_data)

RECURSIVE Sorted(_)
\* sorted(rows)
Sorted(rows) ==
    IF rows = {} THEN <<>>
    ELSE LET first == CHOOSE r \in rows : \A q \in rows : r <= q
         IN  <<first>> \o Sorted(rows \ {first})

_selected_rows(w) == Sorted(w.selected)

_selected_or_all_configs(w) ==
    LET rows == IF _selected_rows(w) = <<>>
                THEN [i \in 1..Len(w.network_table) |-> i]
                ELSE _selected_rows(w)
    IN  [k \in 1..Len(rows) |-> _row_to_config(w.network_table[rows[k]])]

\* entry.get(key, default) of an entry of a loaded list
EntryGet(entry, key, default) == IF key \in DOMAIN entry THEN entry[key] ELSE default

\* the WifiConfig of an entry were the default of "hidden" True
EntryConfig_hidden_by_default(entry) ==
    LET img_data == EntryGet(entry, "image_data", None)
    IN  WifiConfig(EntryGet(entry, "location", <<>>),
                   EntryGet(entry, "ssid", <<>>),
                   EntryGet(entry, "password", <<>>),
                   EntryGet(entry, "security", SECURITY_OPTIONS[1]),
                   EntryGet(entry, "hidden", TRUE),
                   IF img_data # None /\ img_data # <<>> THEN img_data ELSE None)

\* the WifiConfig _load_from_data makes of an entry whose values are
\* strings, booleans and null
EntryConfig(entry) ==
    LET img_data == EntryGet(entry, "image_data", None)
    IN  WifiConfig(EntryGet(entry, "location", <<>>),
                   EntryGet(entry, "ssid", <<>>),
                   EntryGet(entry, "password", <<>>),
                   EntryGet(entry, "security", SECURITY_OPTIONS[1]),
                   EntryGet(entry, "hidden", FALSE),
                   IF img_data # None /\ img_data # <<>> THEN img_data ELSE None)

RECURSIVE AddRows(_, _)
\* the loop of _load_from_data over the configs
AddRows(network_table, configs) ==
    IF configs = <<>> THEN network_table
    ELSE AddRows(_add_or_update_row(network_table, Head(configs)), Tail(configs))

\* _load_from_data without setRowCount(0): the rows loaded follow the rows
\* of the table
_load_from_data_keep_rows(w, data) ==
    LET configs == [i \in 1..Len(data) |-> EntryConfig(data[i])]
        loaded == [w EXCEPT !.network_table = AddRows(w.network_table, configs)]
    IN  IF Len(configs) = 1 THEN _set_form_from_config(loaded, configs[1]) ELSE loaded

\* setRowCount(0) empties the table and with it the selection
_load_from_data(w, data) ==
    LET configs == [i \in 1..Len(data) |-> EntryConfig(data[i])]
        loaded == [w EXCEPT !.network_table = AddRows(<<>>, configs), !.selected = {}]
    IN  IF Len(configs) = 1 THEN _set_form_from_config(loaded, configs[1]) ELSE loaded

\* the list _save_to_path dumps; json.dump and json.load keep strings,
\* booleans and null as they are
SavedData(w) ==
    LET rows == _selected_or_all_configs(w)
        configs == IF rows = <<>> /\ w._config.ssid # <<>> THEN <<w._config>> ELSE rows
    IN  [i \in 1..Len(configs) |->
            [location |-> configs[i].location,
             ssid |-> configs[i].ssid,
             password |-> configs[i].password,
             security |-> configs[i].security,
             hidden |-> configs[i].hidden,
             image_data |-> configs[i].image_data]]

\* pixmap.scaled(size, KeepAspectRatio, SmoothTransformation): another
\* pixmap, the largest of the same proportions that fits size
scaled(pixmap, size) ==
    IF pixmap.width * size[2] <= pixmap.height * size[1]
    THEN Image(pixmap.id + 1, (pixmap.width * size[2]) \div pixmap.height, size[2],
               <<"scaled", pixmap.shows>>)
    ELSE Image(pixmap.id + 1, size[1], (pixmap.height * size[1]) \div pixmap.width,
               <<"scaled", pixmap.shows>>)

\* _update_scaled_preview; size is preview_label.size().  A cached pixmap
\* is kept when the label is within PREVIEW_RESIZE_THRESHOLD of the size
\* it was scaled for
_update_scaled_preview(w, size) ==
    IF w._current_pixmap = NoPixmap
    THEN [w EXCEPT !.preview_label = [text |-> <<>>, pixmap |-> NoPixmap]]
    ELSE IF /\ w._last_preview_size[1] >= 0 /\ w._last_preview_size[2] >= 0
            /\ w._scaled_pixmap # NoPixmap
            /\ size[1] - w._last_preview_size[1] < PREVIEW_RESIZE_THRESHOLD
            /\ w._last_preview_size[1] - size[1] < PREVIEW_RESIZE_THRESHOLD
            /\ size[2] - w._last_preview_size[2] < PREVIEW_RESIZE_THRESHOLD
            /\ w._last_preview_size[2] - size[2] < PREVIEW_RESIZE_THRESHOLD
    THEN [w EXCEPT !.preview_label.pixmap = w._scaled_pixmap]
    ELSE [w EXCEPT !._last_preview_size = size,
                   !._scaled_pixmap = scaled(w._current_pixmap, size),
                   !.preview_label.pixmap = scaled(w._current_pixmap, size)]

\* what a handler did: the window it leaves, the message boxes it showed,
\* the files it wrote and the exception that left it ("none" when it
\* returned)
Handled(w, boxes, files_written, raised) ==
    [window |-> w, shown |-> boxes, written |-> files_written, raised |-> raised]

\* _refresh_preview_now that does not look at the location to decide
\* whether to generate
_refresh_preview_now_location_unwatched(w0, bbox, size) ==
    LET w == [_update_config(w0) EXCEPT !._preview_timer = FALSE]
        payload == build_wifi_payload(w._config)
        header_state == w.show_header_input
        current_location == w._config.location
        should_regenerate ==
            \/ payload # w._current_payload
            \/ header_state # w._last_header_state
            \/ w._config.image_data # w._last_image_data
            \/ w._current_pixmap = NoPixmap
        noted == [w EXCEPT !._current_payload = payload,
                           !._last_header_state = header_state,
                           !._last_location = current_location,
                           !._last_image_data = w._config.image_data]
        qr == generate_qr_image(payload, DEFAULT_QR_SIZE, w._config.image_data)
        image == IF header_state /\ current_location # <<>>
                 THEN _compose_qr_with_header(qr.image, current_location, bbox)
                 ELSE qr.image
        drawn == IF should_regenerate
                 THEN [noted EXCEPT !._current_pixmap = image, !._scaled_pixmap = NoPixmap]
                 ELSE w
        shownw == _update_scaled_preview(drawn, size)
    IN  IF w._config.ssid = <<>>
        THEN Handled([w EXCEPT !._current_pixmap = NoPixmap,
                               !._current_payload = <<>>,
                               !._scaled_pixmap = NoPixmap,
                               !._last_preview_size = <<-1, -1>>,
                               !._last_image_data = None,
                               !.preview_label =
                                   [text |-> Chars("Enter network details to generate a QR code"),
                                    pixmap |-> NoPixmap],
                               !.payload_label = <<>>,
                               !.actions_enabled = FALSE],
                     <<>>, <<>>, "none")
        ELSE IF should_regenerate /\ qr.raised # "none"
        THEN Handled([noted EXCEPT !.actions_enabled = FALSE],
                     <<MessageBox("critical", "QR generation failed", qr.message)>>,
                     <<>>, "none")
        ELSE Handled([shownw EXCEPT !.preview_label.text = <<>>,
                                    !.payload_label = drawn._current_payload,
                                    !.actions_enabled = TRUE],
                     <<>>, <<>>, "none")

\* _refresh_preview_now, run when the single-shot timer times out; bbox is
\* the box of the header text and size the size of the preview label
_refresh_preview_now(w0, bbox, size) ==
    LET w == [_update_config(w0) EXCEPT !._preview_timer = FALSE]
        payload == build_wifi_payload(w._config)
        header_state == w.show_header_input
        current_location == w._config.location
        should_regenerate ==
            \/ payload # w._current_payload
            \/ header_state # w._last_header_state
            \/ current_location # w._last_location
            \/ w._config.image_data # w._last_image_data
            \/ w._current_pixmap = NoPixmap
        noted == [w EXCEPT !._current_payload = payload,
                           !._last_header_state = header_state,
                           !._last_location = current_location,
                           !._last_image_data = w._config.image_data]
        qr == generate_qr_image(payload, DEFAULT_QR_SIZE, w._config.image_data)
        image == IF header_state /\ current_location # <<>>
                 THEN _compose_qr_with_header(qr.image, current_location, bbox)
                 ELSE qr.image
        drawn == IF should_regenerate
                 THEN [noted EXCEPT !._current_pixmap = image, !._scaled_pixmap = NoPixmap]
                 ELSE w
        shownw == _update_scaled_preview(drawn, size)
    IN  IF w._config.ssid = <<>>
        THEN Handled([w EXCEPT !._current_pixmap = NoPixmap,
                               !._current_payload = <<>>,
                               !._scaled_pixmap = NoPixmap,
                               !._last_preview_size = <<-1, -1>>,
                               !._last_image_data = None,
                               !.preview_label =
                                   [text |-> Chars("Enter network details to generate a QR code"),
                                    pixmap |-> NoPixmap],
                               !.payload_label = <<>>,
                               !.actions_enabled = FALSE],
                     <<>>, <<>>, "none")
        ELSE IF should_regenerate /\ qr.raised # "none"
        THEN Handled([noted EXCEPT !.actions_enabled = FALSE],
                     <<MessageBox("critical", "QR generation failed", qr.message)>>,
                     <<>>, "none")
        ELSE Handled([shownw EXCEPT !.preview_label.text = <<>>,
                                    !.payload_label = drawn._current_payload,
                                    !.actions_enabled = TRUE],
                     <<>>, <<>>, "none")

\* what _export_png_to_path and _export_pdf_to_path raise: both encode the
\* payload before they write; the header and the file follow without a
\* raise
ExportRaises(config) ==
    generate_qr_image(build_wifi_payload(config), DEFAULT_QR_SIZE, config.image_data)

\* the four single exports: the guard (the pixmap for PNG and PDF, the
\* payload for the script and the profile), the file dialog, the export
\* itself under try / except Exception
ExportSingle(w, kind, path) ==
    LET nothing_to_export ==
            IF kind \in {"png", "pdf"} THEN w._current_pixmap = NoPixmap
            ELSE w._current_payload = <<>>
        r == ExportRaises(w._config)
    IN  IF nothing_to_export \/ path = <<>>
        THEN Handled(w, <<>>, <<>>, "none")
        ELSE IF kind \in {"png", "pdf"} /\ r.raised # "none"
        THEN Handled(w, <<MessageBox("critical", "Export failed", r.message)>>, <<>>, "none")
        ELSE Handled(w,
                     IF kind \in {"png", "pdf"} THEN <<>>
                     ELSE <<MessageBox("information", "Export complete", "")>>,
                     <<Written(path, kind, <<w._config>>)>>, "none")

\* c.isalnum() for the characters of the model
IsAlnum(c) ==
    \/ \E i \in 1..26 : LowerLetters[i] = c \/ UpperLetters[i] = c
    \/ \E i \in 1..10 : Digits[i] = c

_sanitize_filename(value) ==
    LET kept == [i \in 1..Len(value) |->
                    IF IsAlnum(value[i]) \/ value[i] \in {"-", "_"} THEN value[i] ELSE "_"]
    IN  IF kept = <<>> THEN Chars("wifi") ELSE kept

RECURSIVE ExportEach(_, _, _, _)
\* the loop of _batch_export over the configs for PNG and PDF: the files
\* written before a config whose export raises stay written
ExportEach(configs, kind, target_dir, files_written) ==
    IF configs = <<>> THEN [written |-> files_written, raised |-> "none"]
    ELSE LET config == Head(configs)
             path == target_dir \o <<"/">> \o _sanitize_filename(config.ssid)
                         \o <<".">> \o Chars(kind)
             r == ExportRaises(config)
         IN  IF r.raised # "none"
             THEN [written |-> files_written, raised |-> r.raised \o ": " \o r.message]
             ELSE ExportEach(Tail(configs), kind, target_dir,
                             Append(files_written, Written(path, kind, <<config>>)))

\* _batch_export; export_type and ok are what QInputDialog.getItem gives,
\* target_dir what QFileDialog.getExistingDirectory gives
_batch_export(w, export_type, ok, target_dir) ==
    LET rows == _selected_or_all_configs(w)
        configs == IF rows = <<>> /\ w._config.ssid # <<>> THEN <<w._config>> ELSE rows
        each == ExportEach(configs, IF export_type = "PNG" THEN "png" ELSE "pdf",
                           target_dir, <<>>)
    IN  IF configs = <<>> \/ ~ok \/ target_dir = <<>>
        THEN Handled(w, <<>>, <<>>, "none")
        ELSE IF export_type = "Windows Script"
        THEN Handled(w, <<>>,
                     <<Written(target_dir \o Chars("/wifi-batch.cmd"), "cmd", configs)>>, "none")
        ELSE IF export_type = "macOS Profile"
        THEN Handled(w, <<>>,
                     <<Written(target_dir \o Chars("/wifi-batch.mobileconfig"),
                               "mobileconfig", configs)>>, "none")
        ELSE Handled(w, <<>>, each.written, each.raised)

\* _remove_selected: the rows go and the selection with them
_remove_selected(w) ==
    LET kept == Sorted({r \in 1..Len(w.network_table) : r \notin w.selected})
    IN  [w EXCEPT !.network_table = [k \in 1..Len(kept) |-> w.network_table[kept[k]]],
                  !.selected = {}]

\* _add_to_table
_add_to_table(w) ==
    LET updated == _update_config(w)
    IN  IF updated._config.ssid = <<>> THEN updated
        ELSE [updated EXCEPT !.network_table =
                                 _add_or_update_row(updated.network_table, updated._config)]

\* _toggle_password_visibility(row), row counted from 0: item(row, 2) is
\* None when the table has no such row; _update_password_widget sets the
\* label's isVisible and its text (the password, or its mask)
_toggle_password_visibility(w, row) ==
    IF row + 1 \notin 1..Len(w.network_table) THEN w
    ELSE [w EXCEPT !.network_table[row + 1].isVisible = ~w.network_table[row + 1].isVisible]

\* whether a row matches the query: query in location or query in ssid
\* of the lower-cased item texts
RowMatches(row, query) ==
    \/ query = <<>>
    \/ Contains(Lower(row.location), query)
    \/ Contains(Lower(row.ssid), query)

\* _select_search_row(row), row counted from 0: QTableWidget.selectRow
\* selects that row alone, and nothing when the table has no such row
_select_search_row(w, row) ==
    IF row + 1 \in 1..Len(w.network_table) THEN [w EXCEPT !.selected = {row + 1}] ELSE w

\* _apply_search_filter
_apply_search_filter(w) ==
    LET query == Lower(Strip(w.search_input))
        rows == w.network_table
        matching == Sorted({r \in 1..Len(rows) : query # <<>> /\ RowMatches(rows[r], query)})
        matches == [k \in 1..Len(matching) |-> matching[k] - 1]
        filtered ==
            [w EXCEPT !.network_table =
                          [r \in 1..Len(rows) |->
                              [rows[r] EXCEPT !.row_hidden =
                                  IF query # <<>> THEN ~RowMatches(rows[r], query) ELSE FALSE]],
                      !._search_matches = matches,
                      !._search_index = IF matches # <<>> THEN 0 ELSE NO_SEARCH_INDEX]
    IN  IF matches # <<>> THEN _select_search_row(filtered, matches[1]) ELSE filtered

\* _find_next and _find_previous, step 1 and -1:
\* (self._search_index + step) % len(self._search_matches)
FindStep(w, step) ==
    IF w._search_matches = <<>> THEN w
    ELSE LET n == Len(w._search_matches)
             index == (w._search_index + step + n) % n
         IN  _select_search_row([w EXCEPT !._search_index = index],
                                w._search_matches[index + 1])

_find_next(w) == FindStep(w, 1)

_find_previous(w) == FindStep(w, -1)

(***************************************************************************)
(* Inputs.                                                                 *)
(***************************************************************************)
\* the characters the two escapers are tried on: the four delimiters of
\* the payload, the five specials of XML and one other character
TextAlphabet == {"\\", ";", ",", ":", "&", "<", ">", "\"", "'", "a"}

\* security labels as a user or a saved file may give them
LabelSamples ==
    { Chars("WPA/WPA2/WPA3"), Chars("wpa/wpa2/wpa3"), Chars("WPA2"), Chars("wpa2"),
      Chars("WPA3"), Chars("Wpa3"), Chars("WPA"), Chars("wpa"),
      Chars("WEP"), Chars("wep"),
      Chars("OPEN"), Chars("Open"), Chars("open"),
      Chars("NONE"), Chars("None"), Chars("none"),
      Chars("NO PASSWORD"), Chars("No Password"),
      Chars("NOPASS"), Chars("nopass"),
      Chars("WPA2-EAP"), Chars("foo"), Chars("No  Password"), Chars("a;b"), <<>> }

Pad(n, w) == [i \in 1..n |-> w]

Labels ==
    { Pad(i, w) \o l \o Pad(j, w) :
        l \in LabelSamples, i \in 0..MaxPad, j \in 0..MaxPad, w \in {" ", "\t"} }

\* network names: plain, with surrounding whitespace, with payload
\* delimiters, with XML specials
SsidSamples ==
    { Chars("Office"), Chars(" Guest "), Chars("Lab\t"), Chars(" "),
      Chars("a;b"), Chars("\\:,"), Chars("AC&ME"), Chars("<\"'>"),
      Chars("com.apple.wifi.managed"), Chars("a\nb") }

\* passwords: empty, plain, with significant spaces, with specials
PasswordSamples ==
    { <<>>, Chars("secret"), Chars(" p w "), Chars("p<>&"), Chars("k;\\\"'") }

SecuritySamples ==
    { Chars("WPA/WPA2/WPA3"), Chars("WEP"), Chars("None"), Chars("wpa2"),
      Chars(" Open "), Chars("nopass"), Chars("WPA2-EAP") }

\* WifiConfig
Configs ==
    [ location : {Chars("HQ")},
      ssid : SsidSamples,
      password : PasswordSamples,
      security : SecuritySamples,
      hidden : BOOLEAN,
      image_data : {None} ]

\* the networks the lists of the multi-network builders are made of
BatchConfigs ==
    { c \in Configs :
        /\ c.password = Chars("p<>&")
        /\ c.hidden = FALSE
        /\ \/ /\ c.ssid \in {Chars("Office"), Chars(" Guest ")}
              /\ c.security \in {Chars("WPA/WPA2/WPA3"), Chars("None")}
           \/ /\ c.ssid = Chars("com.apple.wifi.managed")
              /\ c.security = Chars("WPA/WPA2/WPA3")
           \/ /\ c.ssid = Chars("a\nb")
              /\ c.security = Chars("None") }

ConfigLists == UNION {[1..n -> BatchConfigs] : n \in 0..MaxNetworks}

\* the values of the n successive uuid4() draws of one call.  The code
\* only copies and concatenates the values, so the draws are taken up to
\* renaming: the first draw is value 1 and each later draw is either a value
\* drawn before or the next unused value of the pool.
UuidDraws(n) ==
    { d \in [1..n -> 1..NumUuids] :
        \A i \in 1..n : \A v \in 1..(d[i] - 1) : \E j \in 1..(i - 1) : d[j] = v }

\* center image data: none, base64 of an image file and of other bytes,
\* texts that are not base64, a text with a character outside ASCII
ImageDataSamples ==
    { None, <<>>, Chars("UE5H"), Chars("QUJD"), Chars("QQ=="), Chars("QUI="),
      Chars("!!!"), Chars("QUJ"), Chars("UE5H\n"), Chars("=UE5"), Chars("Q=Q="),
      Chars("QQ==UE5H"), Chars("é") }

\* the arguments of generate_qr_image
QrCalls ==
    [ payload : {Chars("WIFI:T:WPA;S:Office;P:secret;H:false;;"), Chars("WIFI:T:nopass;S:Guest;H:true;;")},
      size : {DEFAULT_QR_SIZE},
      center_image_data : ImageDataSamples ]

\* the arguments of _compose_qr_with_header and the box the font gives
\* the header: one of a glyph without extent among them
HeaderCalls ==
    [ image : {Image(1, DEFAULT_QR_SIZE, DEFAULT_QR_SIZE, <<"qr">>), Image(1, 100, 200, <<"qr">>)},
      header : {<<>>, Chars(" "), Chars(" \t"), Chars("\n"), Chars("HQ"), Chars(" HQ "), Chars("a b")},
      bbox : {<<0, 11, 52, 46>>, <<2, 14, 30, 37>>, <<0, 0, 0, 0>>} ]

\* what a call can be made on: a text, a security label, one network, a
\* list of networks
Input(kind, values) == {[kind |-> kind, value |-> v] : v \in values}

(***************************************************************************)
(* The calls.  A behaviour is one call of a function of the encoding core: *)
(* the functions are pure and hold nothing across calls.  arg is the       *)
(* argument, chosen initially; op names the function called on it, ret is  *)
(* the value it returned and exc the exception it raised ("none" when it   *)
(* returned); uuid4 holds the values the uuid4() calls of the call gave,  *)
(* in the order they were made.  The window and the files play no part in  *)
(* these calls.                                                            *)
(***************************************************************************)
Init ==
    /\ op = "init"
    /\ \/ arg \in Input("text", TextsUpTo(TextAlphabet, MaxLen))
       \/ arg \in Input("label", Labels)
       \/ arg \in Input("config", Configs)
       \/ arg \in Input("configs", ConfigLists)
       \/ arg \in Input("qr", QrCalls)
       \/ arg \in Input("header", HeaderCalls)
    /\ ret = <<>>
    /\ exc = "none"
    /\ uuid4 = <<>>
    /\ events = 0
    /\ remainingTime = 0
    /\ window = MainWindow
    /\ files = <<>>
    /\ shown = <<>>
    /\ written = <<>>

Returns(name, value) ==
    /\ op' = name
    /\ ret' = value
    /\ exc' = "none"
    /\ UNCHANGED <<arg, uuid4, window, files, shown, written, events, remainingTime>>

\* a return of a function that drew the values draws from uuid4()
ReturnsDrawing(name, value, draws) ==
    /\ op' = name
    /\ ret' = value
    /\ exc' = "none"
    /\ uuid4' = draws
    /\ UNCHANGED <<arg, window, files, shown, written, events, remainingTime>>

Raises(name, error) ==
    /\ op' = name
    /\ ret' = <<>>
    /\ exc' = error
    /\ UNCHANGED <<arg, uuid4, window, files, shown, written, events, remainingTime>>

CallEscape ==
    /\ op = "init" /\ arg.kind = "text"
    /\ Returns("_escape", _escape(arg.value))

CallNormalizeSecurity ==
    /\ op = "init" /\ arg.kind = "label"
    /\ Returns("normalize_security",
               [normalized |-> normalize_security(arg.value),
                is_open |-> is_open_security(arg.value)])

CallXmlEscape ==
    /\ op = "init" /\ arg.kind = "text"
    /\ Returns("xml_escape", xml_escape(arg.value))

CallBuildWifiPayload ==
    /\ op = "init" /\ arg.kind = "config"
    /\ Returns("build_wifi_payload", build_wifi_payload(arg.value))

CallBuildWlanProfileXml ==
    /\ op = "init" /\ arg.kind = "config"
    /\ Returns("build_wlan_profile_xml", build_wlan_profile_xml(arg.value))

CallBuildWindowsConnectScript ==
    /\ op = "init" /\ arg.kind = "config"
    /\ Returns("build_windows_connect_script", build_windows_connect_script(arg.value))

\* build_windows_connect_script_multi without its check of the list: on an
\* empty list configs[-1] raises IndexError
CallBuildWindowsConnectScriptMulti_no_check ==
    /\ op = "init" /\ arg.kind = "configs"
    /\ IF arg.value = <<>>
       THEN Raises("build_windows_connect_script_multi", "IndexError")
       ELSE Returns("build_windows_connect_script_multi",
                    build_windows_connect_script_multi(arg.value))

CallBuildWindowsConnectScriptMulti ==
    /\ op = "init" /\ arg.kind = "configs"
    /\ IF arg.value = <<>>
       THEN Raises("build_windows_connect_script_multi", "ValueError")
       ELSE Returns("build_windows_connect_script_multi",
                    build_windows_connect_script_multi(arg.value))

CallBuildMacosMobileconfig ==
    /\ op = "init" /\ arg.kind = "config"
    /\ \E draws \in UuidDraws(2) :
          ReturnsDrawing("build_macos_mobileconfig",
                         build_macos_mobileconfig(arg.value, draws), draws)

CallBuildMacosMobileconfigMulti ==
    /\ op = "init" /\ arg.kind = "configs"
    /\ IF arg.value = <<>>
       THEN Raises("build_macos_mobileconfig_multi", "ValueError")
       ELSE \E draws \in UuidDraws(Len(arg.value) + 1) :
               ReturnsDrawing("build_macos_mobileconfig_multi",
                              build_macos_mobileconfig_multi(arg.value, draws), draws)

CallGenerateQrImage ==
    /\ op = "init" /\ arg.kind = "qr"
    /\ LET r == generate_qr_image(arg.value.payload, arg.value.size,
                                  arg.value.center_image_data)
       IN  IF r.raised = "none"
           THEN Returns("generate_qr_image", r.image)
           ELSE Raises("generate_qr_image", r.raised \o ": " \o r.message)

CallComposeQrWithHeader ==
    /\ op = "init" /\ arg.kind = "header"
    /\ Returns("_compose_qr_with_header",
               _compose_qr_with_header(arg.value.image, arg.value.header, arg.value.bbox))

Next ==
    \/ CallEscape
    \/ CallNormalizeSecurity
    \/ CallXmlEscape
    \/ CallBuildWifiPayload
    \/ CallBuildWlanProfileXml
    \/ CallBuildWindowsConnectScript
    \/ CallBuildWindowsConnectScriptMulti
    \/ CallBuildMacosMobileconfig
    \/ CallBuildMacosMobileconfigMulti
    \/ CallGenerateQrImage
    \/ CallComposeQrWithHeader

Spec == Init /\ [][Next]_vars

(***************************************************************************)
(* The window at work.  A behaviour is a session: the window is built,     *)
(* one saved list lies in in.json, and the user loads and saves lists,     *)
(* selects, removes and double-clicks rows and presses the export buttons  *)
(* while the preview timer runs out in between.  op is the handler that    *)
(* ran last, arg what its dialogs gave it, exc the exception that left it, *)
(* shown the message boxes it showed and written the files it wrote.       *)
(***************************************************************************)
InPath == Chars("in.json")
OutPath == Chars("out.json")

\* a complete entry of a saved list
Entry(location, ssid, password, security, hidden, image_data) ==
    [location |-> location, ssid |-> ssid, password |-> password,
     security |-> security, hidden |-> hidden, image_data |-> image_data]

\* saved lists: two networks as the application writes them, the second
\* with image data that is not base64; a list written by hand, with
\* whitespace around values, missing keys, a security label that is no
\* option and empty image data; two networks whose names differ in one
\* character that is neither a letter nor a digit; no network
JsonSamples ==
    { << Entry(Chars("HQ"), Chars("Office"), Chars("pw"), Chars("WPA/WPA2/WPA3"), FALSE,
               Chars("UE5H")),
         Entry(Chars("Lab"), Chars("Guest"), <<>>, Chars("None"), TRUE, Chars("!!!")) >>,
      << [ssid |-> Chars(" Guest "), location |-> Chars("HQ "), image_data |-> <<>>],
         [ssid |-> Chars("Cafe"), security |-> Chars("wpa2"), hidden |-> TRUE] >>,
      << [ssid |-> Chars("Net 1"), password |-> Chars("pw")],
         [ssid |-> Chars("Net_1"), password |-> Chars("pw")] >>,
      << >> }

\* the box the font gives a header, the size of the preview label
UiTextBoxes == {<<0, 11, 52, 46>>}
PreviewLabelSizes == {<<320, 320>>}

ExportTypes == {"PNG", "PDF", "Windows Script", "macOS Profile"}

\* what the two dialogs of the batch export give: a type and a folder, or
\* the first cancelled, or the second cancelled
BatchDialogs ==
    [export_type : ExportTypes, ok : {TRUE}, target_dir : {Chars("out")}]
        \cup { [export_type |-> "PNG", ok |-> FALSE, target_dir |-> <<>>],
               [export_type |-> "PNG", ok |-> TRUE, target_dir |-> <<>>] }

InitUI ==
    /\ op = "__init__"
    /\ arg = [kind |-> "ui", value |-> <<>>]
    /\ ret = <<>>
    /\ exc = "none"
    /\ uuid4 = <<>>
    /\ events = 0
    /\ remainingTime = 0
    /\ window = MainWindow
    /\ \E data \in JsonSamples : files = (InPath :> data)
    /\ shown = <<>>
    /\ written = <<>>

\* a handler has run on the inputs and done what h says
UiStep(name, inputs, h) ==
    /\ op' = name
    /\ arg' = [kind |-> "ui", value |-> inputs]
    /\ window' = h.window
    /\ shown' = h.shown
    /\ written' = h.written
    /\ exc' = h.raised
    /\ events < MaxEvents
    /\ events' = events + 1
    /\ UNCHANGED <<ret, uuid4, remainingTime>>

\* open(path, "w") and json.dump(data, file)
WriteJson(path, data) ==
    files' = [p \in DOMAIN files \cup {path} |-> IF p = path THEN data ELSE files[p]]

\* the user changes the selection of the table
SelectRows ==
    \E rows \in SUBSET (1..Len(window.network_table)) :
        /\ rows # window.selected
        /\ UiStep("selectionChanged", [rows |-> rows],
                  Handled([window EXCEPT !.selected = rows], <<>>, <<>>, "none"))
        /\ UNCHANGED files

\* _load; path is what QFileDialog.getOpenFileName gives, empty when the
\* dialog is cancelled
Load ==
    \E path \in DOMAIN files \cup {<<>>} :
        /\ UiStep("_load", [path |-> path],
                  IF path = <<>>
                  THEN Handled(window, <<>>, <<>>, "none")
                  ELSE Handled([_load_from_data(window, files[path])
                                    EXCEPT !._current_save_path = path],
                               <<>>, <<>>, "none"))
        /\ UNCHANGED files

\* _save_as; path is what QFileDialog.getSaveFileName gives
SaveAs ==
    \E path \in {OutPath, <<>>} :
        IF path = <<>>
        THEN /\ UiStep("_save_as", [path |-> path], Handled(window, <<>>, <<>>, "none"))
             /\ UNCHANGED files
        ELSE /\ UiStep("_save_as", [path |-> path],
                       Handled([window EXCEPT !._current_save_path = path], <<>>,
                               <<Written(path, "json", SavedData(window))>>, "none"))
             /\ WriteJson(path, SavedData(window))

\* _save: to the current path when there is one, else as _save_as
Save ==
    IF window._current_save_path # None
    THEN /\ UiStep("_save", [path |-> window._current_save_path],
                   Handled(window, <<>>,
                           <<Written(window._current_save_path, "json", SavedData(window))>>,
                           "none"))
         /\ WriteJson(window._current_save_path, SavedData(window))
    ELSE \E path \in {OutPath, <<>>} :
            IF path = <<>>
            THEN /\ UiStep("_save", [path |-> path], Handled(window, <<>>, <<>>, "none"))
                 /\ UNCHANGED files
            ELSE /\ UiStep("_save", [path |-> path],
                           Handled([window EXCEPT !._current_save_path = path], <<>>,
                                   <<Written(path, "json", SavedData(window))>>, "none"))
                 /\ WriteJson(path, SavedData(window))

RemoveSelected ==
    /\ window.selected # {}
    /\ UiStep("_remove_selected", <<>>, Handled(_remove_selected(window), <<>>, <<>>, "none"))
    /\ UNCHANGED files

\* the user double-clicks a row: the click selects it and
\* _table_double_clicked puts its network into the form
TableDoubleClicked ==
    \E row \in 1..Len(window.network_table) :
        /\ UiStep("_table_double_clicked", [row |-> row],
                  Handled(_set_form_from_config([window EXCEPT !.selected = {row}],
                                                _row_to_config(window.network_table[row])),
                          <<>>, <<>>, "none"))
        /\ UNCHANGED files

\* the preview timer times out
RefreshPreviewNow ==
    /\ window._preview_timer
    /\ \E bbox \in UiTextBoxes, size \in PreviewLabelSizes :
          UiStep("_refresh_preview_now", <<>>, _refresh_preview_now(window, bbox, size))
    /\ UNCHANGED files

\* the four export buttons; path is what QFileDialog.getSaveFileName gives
ExportPng ==
    /\ window.actions_enabled
    /\ \E path \in {Chars("wifi-qr.png"), <<>>} :
          UiStep("_export_png", [path |-> path], ExportSingle(window, "png", path))
    /\ UNCHANGED files

ExportPdf ==
    /\ window.actions_enabled
    /\ \E path \in {Chars("wifi-qr.pdf"), <<>>} :
          UiStep("_export_pdf", [path |-> path], ExportSingle(window, "pdf", path))
    /\ UNCHANGED files

ExportWindowsScript ==
    /\ window.actions_enabled
    /\ \E path \in {Chars("connect-wifi.cmd"), <<>>} :
          UiStep("_export_windows_script", [path |-> path], ExportSingle(window, "cmd", path))
    /\ UNCHANGED files

ExportMacosProfile ==
    /\ window.actions_enabled
    /\ \E path \in {Chars("wifi-profile.mobileconfig"), <<>>} :
          UiStep("_export_macos_profile", [path |-> path],
                 ExportSingle(window, "mobileconfig", path))
    /\ UNCHANGED files

\* the batch export button
BatchExport ==
    /\ window.actions_enabled
    /\ \E d \in BatchDialogs :
          UiStep("_batch_export", d, _batch_export(window, d.export_type, d.ok, d.target_dir))
    /\ UNCHANGED files

NextUI ==
    \/ SelectRows
    \/ Load
    \/ SaveAs
    \/ Save
    \/ RemoveSelected
    \/ TableDoubleClicked
    \/ RefreshPreviewNow
    \/ ExportPng
    \/ ExportPdf
    \/ ExportWindowsScript
    \/ ExportMacosProfile
    \/ BatchExport

SpecUI == InitUI /\ [][NextUI]_vars

(***************************************************************************)
(* The form and the preview.  A behaviour is a session at the form: the    *)
(* user edits the fields, picks a center image or loads the saved network  *)
(* of in.json, each of which starts the single-shot timer of               *)
(* PREVIEW_DEBOUNCE_MS anew; time passes in steps of TickMs, and when the  *)
(* timer has run out its timeout runs _refresh_preview_now.                *)
(* remainingTime is the time left on the timer.                            *)
(***************************************************************************)
\* what the user may type into the three line edits
FormSsids == {<<>>, Chars("Office")}
FormLocations == {<<>>, Chars("HQ")}
FormPasswords == {<<>>, Chars("pw")}

\* in.json holds one network, open and hidden, whose image data is not base64
InitPreview ==
    /\ op = "__init__"
    /\ arg = [kind |-> "ui", value |-> <<>>]
    /\ ret = <<>>
    /\ exc = "none"
    /\ uuid4 = <<>>
    /\ events = 0
    /\ window = MainWindow
    /\ files = (InPath :> << Entry(Chars("Lab"), Chars("Guest"), <<>>, Chars("None"), TRUE,
                                   Chars("!!!")) >>)
    /\ shown = <<>>
    /\ written = <<>>
    /\ remainingTime = PREVIEW_DEBOUNCE_MS

\* a slot whose _refresh_preview() starts the timer only when it is not
\* running: a running timer keeps the time it has left
FormEdited_timer_not_restarted(name, inputs, w) ==
    /\ events < MaxEdits
    /\ events' = events + 1
    /\ op' = name
    /\ arg' = [kind |-> "ui", value |-> inputs]
    /\ window' = [w EXCEPT !._preview_timer = TRUE]
    /\ remainingTime' = IF window._preview_timer THEN remainingTime ELSE PREVIEW_DEBOUNCE_MS
    /\ shown' = <<>>
    /\ written' = <<>>
    /\ exc' = "none"
    /\ UNCHANGED <<ret, uuid4, files>>

\* a slot has run that leaves the window as w and ends with
\* _refresh_preview(): self._preview_timer.start(PREVIEW_DEBOUNCE_MS)
FormEdited(name, inputs, w) ==
    /\ events < MaxEdits
    /\ events' = events + 1
    /\ op' = name
    /\ arg' = [kind |-> "ui", value |-> inputs]
    /\ window' = [w EXCEPT !._preview_timer = TRUE]
    /\ remainingTime' = PREVIEW_DEBOUNCE_MS
    /\ shown' = <<>>
    /\ written' = <<>>
    /\ exc' = "none"
    /\ UNCHANGED <<ret, uuid4, files>>

\* textChanged of the three line edits; a line edit signals a text that
\* differs from the one it held
EditSsid ==
    \E text \in FormSsids :
        /\ text # window.ssid_input
        /\ FormEdited("_refresh_preview", [signal |-> "ssid_input.textChanged", text |-> text],
                      [window EXCEPT !.ssid_input = text])

EditLocation ==
    \E text \in FormLocations :
        /\ text # window.location_input
        /\ FormEdited("_refresh_preview",
                      [signal |-> "location_input.textChanged", text |-> text],
                      [window EXCEPT !.location_input = text])

\* _update_password_state keeps the password field disabled while the
\* security picked is an open one
EditPassword ==
    \E text \in FormPasswords :
        /\ ~is_open_security(window.security_input)
        /\ text # window.password_input
        /\ FormEdited("_refresh_preview",
                      [signal |-> "password_input.textChanged", text |-> text],
                      [window EXCEPT !.password_input = text])

\* currentTextChanged of the security combo box
SelectSecurity ==
    \E k \in 1..Len(SECURITY_OPTIONS) :
        /\ SECURITY_OPTIONS[k] # window.security_input
        /\ FormEdited("_on_security_changed", [value |-> SECURITY_OPTIONS[k]],
                      [window EXCEPT !.security_input = SECURITY_OPTIONS[k]])

\* stateChanged of the two check boxes
ToggleHidden ==
    FormEdited("_refresh_preview", [signal |-> "hidden_input.stateChanged"],
               [window EXCEPT !.hidden_input = ~window.hidden_input])

ToggleShowHeader ==
    FormEdited("_refresh_preview", [signal |-> "show_header_input.stateChanged"],
               [window EXCEPT !.show_header_input = ~window.show_header_input])

\* _browse_image on a file that is an image: its bytes go into the config
\* as base64
BrowseImage ==
    FormEdited("_browse_image", [path |-> Chars("logo.png")],
               [window EXCEPT !.image_path_display = Chars("logo.png"),
                              !._config.image_data = Chars("UE5H")])

\* _load of in.json: a list of one network goes into the table and, by
\* _set_form_from_config, into the form
LoadNetwork ==
    FormEdited("_load", [path |-> InPath],
               [_load_from_data(window, files[InPath]) EXCEPT !._current_save_path = InPath])

\* TickMs pass while the timer runs
Tick ==
    /\ window._preview_timer
    /\ remainingTime > 0
    /\ remainingTime' = IF remainingTime > TickMs THEN remainingTime - TickMs ELSE 0
    /\ UNCHANGED <<op, arg, ret, exc, uuid4, window, files, shown, written, events>>

\* the timer has run out: timeout runs _refresh_preview_now
PreviewTimeout ==
    /\ window._preview_timer
    /\ remainingTime = 0
    /\ \E bbox \in UiTextBoxes, size \in PreviewLabelSizes :
          LET h == _refresh_preview_now(window, bbox, size)
          IN  /\ op' = "_refresh_preview_now"
              /\ arg' = [kind |-> "ui", value |-> <<>>]
              /\ window' = h.window
              /\ shown' = h.shown
              /\ written' = h.written
              /\ exc' = h.raised
    /\ UNCHANGED <<ret, uuid4, files, events, remainingTime>>

NextPreview ==
    \/ EditSsid
    \/ EditLocation
    \/ EditPassword
    \/ SelectSecurity
    \/ ToggleHidden
    \/ ToggleShowHeader
    \/ BrowseImage
    \/ LoadNetwork
    \/ Tick
    \/ PreviewTimeout

SpecPreview == InitPreview /\ [][NextPreview]_vars

\* PreviewTimeout can be taken: it is enabled exactly here, since
\* _refresh_preview_now is total and always stops the timer
PreviewTimeoutEnabled == window._preview_timer /\ remainingTime = 0

\* time passes, and a timer that has run out has its timeout delivered by
\* the event loop: weak fairness of Tick and of PreviewTimeout, the latter
\* written out with the enabling condition above
SpecPreviewLive ==
    /\ SpecPreview
    /\ WF_vars(Tick)
    /\ ([]<>(~PreviewTimeoutEnabled) \/ []<><<PreviewTimeout>>_vars)

(***************************************************************************)
(* The table of saved networks: rows are added from the form or loaded,    *)
(* removed, searched, and the button of a row shows or masks its password. *)
(***************************************************************************)
\* what is typed into the search box
SearchQueries == {<<>>, Chars("Guest "), Chars("hq")}

\* the Add to Table button
AddToTable ==
    /\ UiStep("_add_to_table", <<>>, Handled(_add_to_table(window), <<>>, <<>>, "none"))
    /\ UNCHANGED files

\* the button in the password cell of a row is clicked: its lambda calls
\* _toggle_password_visibility with the row it holds
ClickPasswordToggle ==
    \E row \in 1..Len(window.network_table) :
        /\ UiStep("_toggle_password_visibility", [row |-> row],
                  Handled(_toggle_password_visibility(window,
                                                      window.network_table[row].toggle_row),
                          <<>>, <<>>, "none"))
        /\ UNCHANGED files

\* the text of the search box changes: textChanged runs _apply_search_filter
SearchTextChanged ==
    \E text \in SearchQueries :
        /\ text # window.search_input
        /\ UiStep("_apply_search_filter", [text |-> text],
                  Handled(_apply_search_filter([window EXCEPT !.search_input = text]),
                          <<>>, <<>>, "none"))
        /\ UNCHANGED files

FindNext ==
    /\ UiStep("_find_next", <<>>, Handled(_find_next(window), <<>>, <<>>, "none"))
    /\ UNCHANGED files

FindPrevious ==
    /\ UiStep("_find_previous", <<>>, Handled(_find_previous(window), <<>>, <<>>, "none"))
    /\ UNCHANGED files

NextTable ==
    \/ Load
    \/ SelectRows
    \/ RemoveSelected
    \/ TableDoubleClicked
    \/ AddToTable
    \/ ClickPasswordToggle
    \/ SearchTextChanged
    \/ FindNext
    \/ FindPrevious

SpecTable == InitUI /\ [][NextTable]_vars

(***************************************************************************)
(* What the specification says of the outputs, stated on the texts         *)
(* themselves.                                                             *)
(***************************************************************************)

\* the number of places of text where pattern occurs
Count(text, pattern) ==
    Cardinality({ i \in 1..(Len(text) - Len(pattern) + 1) :
                    /\ text[i] = pattern[1]
                    /\ SubSeq(text, i, i + Len(pattern) - 1) = pattern })

\* the number of characters of text that are in set
CountIn(text, set) == Cardinality({ i \in 1..Len(text) : text[i] \in set })

\* the text between the first occurrence of open at or after position from
\* and the next occurrence of close after it; <<"?">> marks a missing field
FieldFrom(text, open, close, from) ==
    LET i == IndexOf(text, open, from)
        j == IF i = 0 THEN 0 ELSE IndexOf(text, close, i + Len(open))
    IN  IF i = 0 \/ j = 0 THEN <<"?">> ELSE SubSeq(text, i + Len(open), j - 1)

Field(text, open, close) == FieldFrom(text, open, close, 1)

\* each payload delimiter preceded by a backslash, every other character kept
PayloadSubst(s) ==
    Concat([i \in 1..Len(s) |->
        IF s[i] \in {"\\", ";", ",", ":"} THEN <<"\\", s[i]>> ELSE <<s[i]>>])

\* each XML special replaced by its entity, every other character kept
XmlSubst(s) ==
    Concat([i \in 1..Len(s) |->
        CASE s[i] = "&" -> Chars("&amp;")
          [] s[i] = "<" -> Chars("&lt;")
          [] s[i] = ">" -> Chars("&gt;")
          [] s[i] = "\"" -> Chars("&quot;")
          [] s[i] = "'" -> Chars("&apos;")
          [] OTHER -> <<s[i]>>])

\* the label in capitals, without the whitespace around it
LabelKey(label) == Strip(Upper(label))

WpaLabels == {Chars("WPA/WPA2/WPA3"), Chars("WPA2"), Chars("WPA3")}
OpenLabels == {Chars("OPEN"), Chars("NONE"), Chars("NO PASSWORD")}

\* the canonical token the alias table of the specification gives a label
CanonicalToken(label) ==
    IF LabelKey(label) \in WpaLabels THEN Chars("WPA")
    ELSE IF LabelKey(label) \in OpenLabels THEN Chars("NOPASS")
    ELSE LabelKey(label)

\* the token of the T field of a payload for a label
QrToken(label) ==
    IF CanonicalToken(label) = Chars("NOPASS") THEN Chars("nopass") ELSE CanonicalToken(label)

HiddenText(config) == IF config.hidden THEN Chars("true") ELSE Chars("false")

(***************************************************************************)
(* C1: build_wifi_payload returns exactly WIFI:T:nopass;S:<E(ssid)>;H:<h>;;*)
(* when the label normalizes to NOPASS, whatever the password is, and      *)
(* otherwise exactly WIFI:T:<token>;S:<E(ssid)>;P:<E(password)>;H:<h>;;    *)
(* with E the payload escaping, the SSID trimmed, the password escaped but *)
(* not trimmed, h "true" or "false", and nothing after the final ";;".     *)
(***************************************************************************)
C1_PayloadFormat ==
    op = "build_wifi_payload" =>
        LET c == arg.value
        IN  ret = IF CanonicalToken(c.security) = Chars("NOPASS")
                  THEN Chars("WIFI:T:nopass;S:") \o PayloadSubst(Strip(c.ssid))
                           \o Chars(";H:") \o HiddenText(c) \o Chars(";;")
                  ELSE Chars("WIFI:T:") \o CanonicalToken(c.security)
                           \o Chars(";S:") \o PayloadSubst(Strip(c.ssid))
                           \o Chars(";P:") \o PayloadSubst(c.password)
                           \o Chars(";H:") \o HiddenText(c) \o Chars(";;")

\* an open network given with a password, and a secured one whose password
\* has spaces around it, have been encoded
C1_Witness ==
    /\ op = "build_wifi_payload"
    /\ \/ /\ arg.value.security = Chars(" Open ")
          /\ arg.value.password = Chars(" p w ")
          /\ ~Contains(ret, Chars(";P:"))
       \/ /\ arg.value.security = Chars("wpa2")
          /\ arg.value.password = Chars(" p w ")
          /\ Contains(ret, Chars(";P: p w ;"))

(***************************************************************************)
(* C2 as claimed: for every security label, the token of the T field of    *)
(* the payload is one of WPA, WEP, nopass.                                 *)
(***************************************************************************)
C2_TokenAlwaysCanonical ==
    op = "build_wifi_payload" =>
        Field(ret, Chars("WIFI:T:"), Chars(";S:")) \in {Chars("WPA"), Chars("WEP"), Chars("nopass")}

\* the labels the alias table and the per-format mappings know
RecognisedKeys == WpaLabels \cup OpenLabels \cup {Chars("WPA"), Chars("WEP"), Chars("NOPASS")}

(***************************************************************************)
(* C2 as amended: the token of the T field is WPA, WEP or nopass whenever  *)
(* the label, trimmed and in capitals, is one of WPA/WPA2/WPA3, WPA2,      *)
(* WPA3, WPA, WEP, OPEN, NONE, NO PASSWORD, NOPASS; for any other label it *)
(* is the label itself, trimmed and in capitals.                           *)
(***************************************************************************)
C2_TokenCanonicalWhenRecognised ==
    op = "build_wifi_payload" =>
        LET key == LabelKey(arg.value.security)
            token == Field(ret, Chars("WIFI:T:"), Chars(";S:"))
        IN  /\ key \in RecognisedKeys => token \in {Chars("WPA"), Chars("WEP"), Chars("nopass")}
            /\ key \notin RecognisedKeys => token = key

\* a payload has been built for a label the alias table does not know
C2_Witness ==
    /\ op = "build_wifi_payload"
    /\ arg.value.security = Chars("WPA2-EAP")
    /\ StartsWith(ret, Chars("WIFI:T:WPA2-EAP;S:"))

(***************************************************************************)
(* C3: _escape(s) is the character-by-character substitution that puts a   *)
(* backslash before each backslash, semicolon, comma and colon of s and    *)
(* keeps every other character; the backslashes it introduces are not      *)
(* escaped again, and the output is longer than s by exactly the number of *)
(* those four characters in s.                                             *)
(***************************************************************************)
C3_EscapeCharwise ==
    op = "_escape" =>
        /\ ret = PayloadSubst(arg.value)
        /\ Len(ret) = Len(arg.value) + CountIn(arg.value, {"\\", ";", ",", ":"})

\* a text with a backslash and a later delimiter has been escaped
C3_Witness ==
    /\ op = "_escape"
    /\ arg.value = <<"\\", "a", ";">>
    /\ ret = <<"\\", "\\", "a", "\\", ";">>

(***************************************************************************)
(* C5: normalize_security puts the label in capitals, trims it and returns *)
(* WPA for WPA/WPA2/WPA3, WPA2 and WPA3, NOPASS for OPEN, NONE and         *)
(* NO PASSWORD, and the label in capitals and trimmed for every other      *)
(* label, without raising; is_open_security is true exactly when that      *)
(* result is NOPASS.                                                       *)
(***************************************************************************)
C5_NormalizeSecurity ==
    op = "normalize_security" =>
        /\ exc = "none"
        /\ ret.normalized = CanonicalToken(arg.value)
        /\ ret.is_open = (CanonicalToken(arg.value) = Chars("NOPASS"))

\* a padded lower-case alias and a padded unknown label have been normalized
C5_Witness ==
    /\ op = "normalize_security"
    /\ \/ arg.value = Chars(" none ") /\ ret.normalized = Chars("NOPASS") /\ ret.is_open
       \/ arg.value = Chars("\tfoo\t") /\ ret.normalized = Chars("FOO") /\ ~ret.is_open

\* the network an encoder was called on
Network == arg.value

(***************************************************************************)
(* C4 as claimed: every encoder embeds the SSID without the whitespace     *)
(* around it: the S field of the payload, the two <name> elements of the   *)
(* Windows profile, the SSID_STR of the macOS payload and the name         *)
(* argument of the Windows connect command all carry the trimmed SSID.     *)
(***************************************************************************)
C4_EveryEncoderTrimsSsid ==
    /\ op = "build_wifi_payload" =>
          StartsWith(Drop(ret, IndexOf(ret, Chars(";S:"), 1) + 2),
                     PayloadSubst(Strip(Network.ssid))
                         \o (IF CanonicalToken(Network.security) = Chars("NOPASS")
                             THEN Chars(";H:") ELSE Chars(";P:")))
    /\ op = "build_wlan_profile_xml" =>
          /\ Field(ret, Chars("<name>"), Chars("</name>")) = XmlSubst(Strip(Network.ssid))
          /\ Field(ret, Chars("<SSID><name>"), Chars("</name>")) = XmlSubst(Strip(Network.ssid))
    /\ op = "build_macos_mobileconfig" =>
          Field(ret.content, Chars("<key>SSID_STR</key><string>"), Chars("</string>"))
              = XmlSubst(Strip(Network.ssid))
    /\ op = "build_windows_connect_script" =>
          Field(ret.content, Chars("netsh wlan connect name=\""), Chars("\"\r\n"))
              = Strip(Network.ssid)

(***************************************************************************)
(* C6: xml_escape(s) is the character-by-character substitution of &amp;   *)
(* &lt; &gt; &quot; &apos; for & < > " ' (the ampersands it introduces are *)
(* not escaped again); so the Windows profile and the macOS profile carry  *)
(* the SSID and the password in that form, no '<', '>', '"' or apostrophe  *)
(* of the document comes from the input, and every '&' of the document     *)
(* begins an entity.                                                       *)
(***************************************************************************)
Entities == {Chars("&amp;"), Chars("&lt;"), Chars("&gt;"), Chars("&quot;"), Chars("&apos;")}

\* every '&' of text begins an entity
AmpersandsBeginEntities(text) ==
    \A i \in 1..Len(text) :
        text[i] = "&" => \E e \in Entities : SubSeq(text, i, i + Len(e) - 1) = e

\* how often each of < > " ' occurs in text
SpecialCounts(text) == [ch \in {"<", ">", "\"", "'"} |-> CountIn(text, {ch})]

\* the network with an empty SSID and an empty password
Blank(config) == [config EXCEPT !.ssid = <<>>, !.password = <<>>]

C6_XmlEscape ==
    /\ op = "xml_escape" => ret = XmlSubst(arg.value)
    /\ op = "build_wlan_profile_xml" =>
          /\ Field(ret, Chars("<name>"), Chars("</name>")) = XmlSubst(Network.ssid)
          /\ Field(ret, Chars("<SSID><name>"), Chars("</name>")) = XmlSubst(Network.ssid)
          /\ Contains(ret, Chars("<keyMaterial>")) =>
                Field(ret, Chars("<keyMaterial>"), Chars("</keyMaterial>"))
                    = XmlSubst(Network.password)
          /\ SpecialCounts(ret) = SpecialCounts(build_wlan_profile_xml(Blank(Network)))
          /\ AmpersandsBeginEntities(ret)
    /\ op = "build_macos_mobileconfig" =>
          /\ Field(ret.content, Chars("<key>SSID_STR</key><string>"), Chars("</string>"))
                = XmlSubst(Network.ssid)
          /\ Field(ret.content, Chars("<key>PayloadDisplayName</key><string>WiFi "),
                   Chars("</string>")) = XmlSubst(Network.ssid)
          /\ Contains(ret.content, Chars("<key>Password</key>")) =>
                Field(ret.content, Chars("<key>Password</key><string>"), Chars("</string>"))
                    = XmlSubst(Network.password)
          /\ SpecialCounts(ret.content)
                = SpecialCounts(build_macos_mobileconfig(Blank(Network), <<1, 1>>).content)
          /\ AmpersandsBeginEntities(ret.content)

\* a Windows profile has been built for an SSID and a password that hold
\* XML specials
C6_Witness ==
    /\ op = "build_wlan_profile_xml"
    /\ Network.ssid = Chars("<\"'>")
    /\ Network.password = Chars("p<>&")
    /\ Contains(ret, Chars("<name>&lt;&quot;&apos;&gt;</name>"))
    /\ Contains(ret, Chars("<keyMaterial>p&lt;&gt;&amp;</keyMaterial>"))

(***************************************************************************)
(* C7: build_wlan_profile_xml maps the normalized security to              *)
(* (authentication, encryption, keyType) = (open, none, none) for NOPASS,  *)
(* (open, WEP, networkKey) for WEP and (WPA2PSK, AES, passPhrase) for      *)
(* every other token; the output holds a <sharedKey> element, with that    *)
(* keyType, protected=false and keyMaterial = the escaped password,        *)
(* exactly when the key type is not null, so never for an open network.    *)
(***************************************************************************)
WindowsMapping(label) ==
    IF CanonicalToken(label) = Chars("NOPASS")
    THEN [authentication |-> Chars("open"), encryption |-> Chars("none"), keyed |-> FALSE,
          keyType |-> <<>>]
    ELSE IF CanonicalToken(label) = Chars("WEP")
    THEN [authentication |-> Chars("open"), encryption |-> Chars("WEP"), keyed |-> TRUE,
          keyType |-> Chars("networkKey")]
    ELSE [authentication |-> Chars("WPA2PSK"), encryption |-> Chars("AES"), keyed |-> TRUE,
          keyType |-> Chars("passPhrase")]

C7_WindowsSecurityMapping ==
    op = "build_wlan_profile_xml" =>
        LET m == WindowsMapping(Network.security)
        IN  /\ Field(ret, Chars("<authentication>"), Chars("</authentication>"))
                  = m.authentication
            /\ Field(ret, Chars("<encryption>"), Chars("</encryption>")) = m.encryption
            /\ Count(ret, Chars("<sharedKey>")) = (IF m.keyed THEN 1 ELSE 0)
            /\ m.keyed =>
                  Field(ret, Chars("<sharedKey>"), Chars("</sharedKey>"))
                      = Chars("<keyType>") \o m.keyType \o Chars("</keyType>")
                        \o Chars("<protected>false</protected>")
                        \o Chars("<keyMaterial>") \o XmlSubst(Network.password)
                        \o Chars("</keyMaterial>")
            /\ ~m.keyed => ~Contains(ret, Chars("sharedKey"))

\* a profile has been built for an open network given with a password
C7_Witness ==
    /\ op = "build_wlan_profile_xml"
    /\ Network.security = Chars(" Open ")
    /\ Network.password = Chars("secret")
    /\ ~Contains(ret, Chars("<sharedKey>"))
    /\ Contains(ret, Chars("<authentication>open</authentication><encryption>none</encryption>"))

(***************************************************************************)
(* Reading a script back: its lines, and the text its decode-and-write     *)
(* command writes.                                                         *)
(***************************************************************************)
RECURSIVE SplitLines(_)
\* the lines of a text whose lines each end with CR LF
SplitLines(text) ==
    IF text = <<>> THEN <<>>
    ELSE LET i == IndexOf(text, CRLF, 1)
         IN  IF i = 0 THEN <<text>>
             ELSE <<SubSeq(text, 1, i - 1)>> \o SplitLines(Drop(text, i + 1))

\* the character of a code point
Chr == [n \in {Ord[c] : c \in DOMAIN Ord} |-> CHOOSE c \in DOMAIN Ord : Ord[c] = n]

\* the six bits a base64 character stands for
Base64Value ==
    [c \in {Base64Alphabet[i] : i \in 1..64} |->
        (CHOOSE i \in 1..64 : Base64Alphabet[i] = c) - 1]

\* the bytes a base64 text stands for
Base64Decode(text) ==
    LET n == Len(text)
        pad == IF n >= 2 /\ text[n - 1] = "=" THEN 2
               ELSE IF n >= 1 /\ text[n] = "=" THEN 1 ELSE 0
        v(g, m) == IF text[4 * g + m] = "=" THEN 0 ELSE Base64Value[text[4 * g + m]]
        byte(g, j) ==
            CASE j = 0 -> v(g, 1) * 4 + v(g, 2) \div 16
              [] j = 1 -> (v(g, 2) % 16) * 16 + v(g, 3) \div 4
              [] j = 2 -> (v(g, 3) % 4) * 64 + v(g, 4)
    IN  [k \in 1..(3 * (n \div 4) - pad) |-> byte((k - 1) \div 3, (k - 1) % 3)]

\* the text PowerShell gets from FromBase64String and UTF8.GetString
DecodedText(b64) == LET bytes == Base64Decode(b64) IN [i \in 1..Len(bytes) |-> Chr[bytes[i]]]

DecodePrefix ==
    Chars("powershell -NoProfile -ExecutionPolicy Bypass -Command \"$xml=[System.Text.Encoding]::UTF8.GetString([System.Convert]::FromBase64String('")

DecodeSuffix ==
    Chars("')); Set-Content -LiteralPath \\\"%PROFILE_PATH%\\\" -Value $xml -Encoding UTF8\"")

\* line is the decode-and-write command, and what it writes is xml
WritesProfile(line, xml) ==
    /\ StartsWith(line, DecodePrefix)
    /\ Len(line) >= Len(DecodePrefix) + Len(DecodeSuffix)
    /\ SubSeq(line, Len(line) - Len(DecodeSuffix) + 1, Len(line)) = DecodeSuffix
    /\ LET b64 == SubSeq(line, Len(DecodePrefix) + 1, Len(line) - Len(DecodeSuffix))
       IN  /\ Len(b64) % 4 = 0
           /\ \A i \in 1..Len(b64) : b64[i] \in DOMAIN Base64Value \cup {"="}
           /\ DecodedText(b64) = xml

\* lines[first .. first + 3] write, add and delete the profile xml through
\* the temp file path
IsProfileBlock(lines, first, path, xml) ==
    /\ lines[first] = Chars("set \"PROFILE_PATH=") \o path \o Chars("\"")
    /\ WritesProfile(lines[first + 1], xml)
    /\ lines[first + 2] = Chars("netsh wlan add profile filename=\"%PROFILE_PATH%\" user=all")
    /\ lines[first + 3] = Chars("del /f /q \"%PROFILE_PATH%\"")

ConnectLine(ssid) == Chars("netsh wlan connect name=\"") \o ssid \o Chars("\"")

ConnectLines(lines) ==
    { k \in 1..Len(lines) : StartsWith(lines[k], Chars("netsh wlan connect")) }

(***************************************************************************)
(* C8: for a list of N >= 1 networks build_windows_connect_script_multi    *)
(* emits, between the two header lines and the final endlocal, N           *)
(* write/add/delete blocks in input order, block i using the temp file     *)
(* %TEMP%\wifi-profile-<i>.xml and carrying the base64 of the WLAN profile *)
(* of the i-th network, then exactly one netsh wlan connect line, after    *)
(* all blocks, naming the last network; ScriptExport.ssid is that SSID.    *)
(***************************************************************************)
C8_MultiScriptBlocks ==
    (op = "build_windows_connect_script_multi" /\ exc = "none") =>
        LET configs == arg.value
            N == Len(configs)
            lines == SplitLines(ret.content)
        IN  /\ N >= 1
            /\ Len(lines) = 4 * N + 4
            /\ lines[1] = Chars("@echo off")
            /\ lines[2] = Chars("setlocal EnableExtensions DisableDelayedExpansion")
            /\ \A i \in 1..N :
                  IsProfileBlock(lines, 4 * i - 1,
                      Chars("%TEMP%\\wifi-profile-") \o IntToStr(i) \o Chars(".xml"),
                      build_wlan_profile_xml(configs[i]))
            /\ lines[4 * N + 3] = ConnectLine(configs[N].ssid)
            /\ ConnectLines(lines) = {4 * N + 3}
            /\ lines[4 * N + 4] = Chars("endlocal")
            /\ ret.ssid = configs[N].ssid

\* a script has been built for two networks of different names
C8_Witness ==
    /\ op = "build_windows_connect_script_multi"
    /\ exc = "none"
    /\ Len(arg.value) = 2
    /\ arg.value[1].ssid = Chars("Office")
    /\ arg.value[2].ssid = Chars(" Guest ")
    /\ Contains(ret.content, Chars("wifi-profile-2.xml"))

(***************************************************************************)
(* C9: build_windows_connect_script produces, in this order: @echo off,    *)
(* setlocal EnableExtensions DisableDelayedExpansion, the set of           *)
(* PROFILE_PATH to the temp path, the PowerShell decode-and-write command  *)
(* whose base64 argument decodes to the WLAN profile of the network,       *)
(* netsh wlan add profile, the deletion of the temp file, netsh wlan       *)
(* connect name="<ssid>", endlocal: the profile is added before the temp   *)
(* file is deleted and the connect command comes after both.               *)
(***************************************************************************)
C9_SingleScriptOrder ==
    op = "build_windows_connect_script" =>
        LET lines == SplitLines(ret.content)
        IN  /\ Len(lines) = 8
            /\ lines[1] = Chars("@echo off")
            /\ lines[2] = Chars("setlocal EnableExtensions DisableDelayedExpansion")
            /\ IsProfileBlock(lines, 3, Chars("%TEMP%\\wifi-profile.xml"),
                              build_wlan_profile_xml(Network))
            /\ lines[7] = ConnectLine(Network.ssid)
            /\ lines[8] = Chars("endlocal")

\* a script has been built for a secured network
C9_Witness ==
    /\ op = "build_windows_connect_script"
    /\ Network.ssid = Chars("Office")
    /\ Network.security = Chars("WPA/WPA2/WPA3")
    /\ Contains(ret.content, Chars("netsh wlan connect name=\"Office\"\r\nendlocal\r\n"))

(***************************************************************************)
(* C10: build_windows_connect_script_multi and                             *)
(* build_macos_mobileconfig_multi raise ValueError on an empty list and    *)
(* return no export then; on every non-empty list they return an export    *)
(* without raising.                                                        *)
(***************************************************************************)
C10_EmptyListRaises ==
    op \in {"build_windows_connect_script_multi", "build_macos_mobileconfig_multi"} =>
        /\ arg.value = <<>> => (exc = "ValueError" /\ ret = <<>>)
        /\ arg.value # <<>> => (exc = "none" /\ "content" \in DOMAIN ret)

\* a multi-network builder has been called on the empty list and has raised
C10_Witness ==
    /\ op \in {"build_windows_connect_script_multi", "build_macos_mobileconfig_multi"}
    /\ arg.value = <<>>
    /\ exc = "ValueError"

(***************************************************************************)
(* The macOS profiles, read back from the text of the document.            *)
(***************************************************************************)
ManagedType == Chars("com.apple.wifi.managed")

RECURSIVE SplitDicts(_)
\* the <dict>...</dict> elements a text is the concatenation of
SplitDicts(text) ==
    LET j == IndexOf(text, Chars("</dict>"), 1)
    IN  IF text = <<>> THEN <<>>
        ELSE IF j = 0 THEN <<text>>
        ELSE <<SubSeq(text, 1, j + 6)>> \o SplitDicts(Drop(text, j + 6))

\* the payload dicts of the PayloadContent array of a profile
PayloadDicts(content) == SplitDicts(Field(content, Chars("<array>"), Chars("</array>")))

\* the <string> value of a key of a dict
StringOf(dict, key) ==
    Field(dict, Chars("<key>") \o key \o Chars("</key><string>"), Chars("</string>"))

\* the part of a profile after its PayloadContent array: the outer keys
OuterKeys(content) == Drop(content, IndexOf(content, Chars("</array>"), 1))

\* the networks a macOS builder was called on
MacNetworks == IF arg.kind = "configs" THEN arg.value ELSE <<arg.value>>

MultiProfileBuilt == op = "build_macos_mobileconfig_multi" /\ exc = "none"

(***************************************************************************)
(* C11 as claimed: a multi-network macOS profile built from N records      *)
(* contains exactly N occurrences of the text com.apple.wifi.managed, for  *)
(* every choice of SSIDs and passwords.                                    *)
(***************************************************************************)
C11_ExactlyNOccurrences ==
    MultiProfileBuilt => Count(ret.content, ManagedType) = Len(arg.value)

(***************************************************************************)
(* C11 as amended: the profile contains exactly N PayloadType entries of   *)
(* value com.apple.wifi.managed for every choice of SSIDs and passwords,   *)
(* and exactly N occurrences of the text com.apple.wifi.managed whenever   *)
(* no SSID and no password contains that text.                             *)
(***************************************************************************)
C11_NManagedPayloads ==
    MultiProfileBuilt =>
        /\ Count(ret.content,
                 Chars("<key>PayloadType</key><string>") \o ManagedType \o Chars("</string>"))
              = Len(arg.value)
        /\ (\A i \in 1..Len(arg.value) :
                /\ ~Contains(arg.value[i].ssid, ManagedType)
                /\ ~Contains(arg.value[i].password, ManagedType))
              => Count(ret.content, ManagedType) = Len(arg.value)

\* a profile of two networks, neither named after the payload type, has
\* been built and holds the text twice
C11_Witness ==
    /\ MultiProfileBuilt
    /\ Len(arg.value) = 2
    /\ arg.value[1].ssid = Chars("Office")
    /\ arg.value[2].ssid = Chars(" Guest ")
    /\ Count(ret.content, ManagedType) = 2

\* the EncryptionType the specification gives a security label
MacEncryption(label) ==
    IF CanonicalToken(label) = Chars("NOPASS") THEN Chars("None")
    ELSE IF CanonicalToken(label) = Chars("WEP") THEN Chars("WEP")
    ELSE Chars("WPA")

MacProfileBuilt ==
    /\ op \in {"build_macos_mobileconfig", "build_macos_mobileconfig_multi"}
    /\ exc = "none"

(***************************************************************************)
(* C12: each macOS Wi-Fi payload dict has EncryptionType None for a label  *)
(* that normalizes to NOPASS, WEP for WEP and WPA for every other token,   *)
(* HIDDEN_NETWORK <true/> or <false/> after the hidden flag, and a         *)
(* Password key, holding the escaped password, exactly when EncryptionType *)
(* is not None: an open network has no Password key whatever its password. *)
(***************************************************************************)
C12_MacPayloadDict ==
    MacProfileBuilt =>
        LET dicts == PayloadDicts(ret.content)
        IN  /\ Len(dicts) = Len(MacNetworks)
            /\ \A i \in 1..Len(dicts) :
                  LET c == MacNetworks[i]
                      encryption == StringOf(dicts[i], Chars("EncryptionType"))
                  IN  /\ encryption = MacEncryption(c.security)
                      /\ Contains(dicts[i], Chars("<key>HIDDEN_NETWORK</key><true/>")) <=> c.hidden
                      /\ Contains(dicts[i], Chars("<key>HIDDEN_NETWORK</key><false/>")) <=> ~c.hidden
                      /\ Contains(dicts[i], Chars("<key>Password</key>"))
                            <=> encryption # Chars("None")
                      /\ encryption # Chars("None") =>
                            StringOf(dicts[i], Chars("Password")) = XmlSubst(c.password)

\* a hidden open network given with a password has been written without
\* the Password key
C12_Witness ==
    /\ op = "build_macos_mobileconfig"
    /\ arg.value.security = Chars(" Open ")
    /\ arg.value.password = Chars("p<>&")
    /\ arg.value.hidden
    /\ StringOf(ret.content, Chars("EncryptionType")) = Chars("None")
    /\ ~Contains(ret.content, Chars("<key>Password</key>"))

\* s has no two equal elements
Distinct(s) == \A i, j \in 1..Len(s) : s[i] = s[j] => i = j

(***************************************************************************)
(* C13: in a multi-network macOS profile the payload dicts are in input    *)
(* order, the PayloadIdentifier of each is the outer identifier, ".wifi."  *)
(* and the PayloadUUID drawn for that payload; when the draws of uuid4 are *)
(* distinct the N+1 PayloadIdentifier values are pairwise distinct and so  *)
(* are the N+1 PayloadUUID values; the identifier returned is the outer    *)
(* PayloadIdentifier of the content.                                       *)
(***************************************************************************)
C13_MultiProfileIdentifiers ==
    MultiProfileBuilt =>
        LET dicts == PayloadDicts(ret.content)
            outer == StringOf(OuterKeys(ret.content), Chars("PayloadIdentifier"))
            identifiers ==
                <<outer>> \o [i \in 1..Len(dicts) |-> StringOf(dicts[i], Chars("PayloadIdentifier"))]
            uuids ==
                <<StringOf(OuterKeys(ret.content), Chars("PayloadUUID"))>>
                \o [i \in 1..Len(dicts) |-> StringOf(dicts[i], Chars("PayloadUUID"))]
        IN  /\ Len(dicts) = Len(arg.value)
            /\ \A i \in 1..Len(dicts) :
                  /\ StringOf(dicts[i], Chars("SSID_STR")) = XmlSubst(arg.value[i].ssid)
                  /\ uuids[i + 1] = UuidText(uuid4[i + 1])
                  /\ identifiers[i + 1] = outer \o Chars(".wifi.") \o uuids[i + 1]
            /\ uuids[1] = UuidText(uuid4[1])
            /\ Distinct(uuid4) => Distinct(identifiers) /\ Distinct(uuids)
            /\ ret.identifier = outer

\* a profile of two different networks has been built with three distinct
\* draws
C13_Witness ==
    /\ MultiProfileBuilt
    /\ Len(arg.value) = 2
    /\ arg.value[1].ssid = Chars(" Guest ")
    /\ arg.value[2].ssid = Chars("Office")
    /\ Distinct(uuid4)
    /\ IndexOf(ret.content, Chars("<string> Guest </string>"), 1)
          < IndexOf(ret.content, Chars("<string>Office</string>"), 1)

ScriptBuilt ==
    /\ op \in {"build_windows_connect_script", "build_windows_connect_script_multi"}
    /\ exc = "none"

(***************************************************************************)
(* C14 as claimed: in the content both Windows script builders return,     *)
(* for every input, every line is terminated by CRLF: the content ends     *)
(* with CR LF, every line feed comes right after a carriage return and     *)
(* every carriage return comes right before a line feed.                   *)
(***************************************************************************)
C14_EveryLineEndsCRLF ==
    ScriptBuilt =>
        LET content == ret.content
        IN  /\ Len(content) >= 2
            /\ SubSeq(content, Len(content) - 1, Len(content)) = CRLF
            /\ \A i \in 1..Len(content) :
                  /\ content[i] = "\n" => i > 1 /\ content[i - 1] = "\r"
                  /\ content[i] = "\r" => i < Len(content) /\ content[i + 1] = "\n"

(***************************************************************************)
(* The center image of generate_qr_image.                                  *)
(***************************************************************************)
\* a text is valid base64 when it is groups of four characters of the
\* alphabet, the last group ending in at most two "="
ValidBase64(text) ==
    /\ Len(text) % 4 = 0
    /\ \A i \in 1..Len(text) :
          \/ \E k \in 1..Len(Base64Alphabet) : Base64Alphabet[k] = text[i]
          \/ /\ text[i] = "="
             /\ i >= Len(text) - 1
             /\ i = Len(text) - 1 => text[Len(text)] = "="

CenterImageData == arg.value.center_image_data

CenterImageGiven == CenterImageData # None /\ CenterImageData # <<>>

(***************************************************************************)
(* C15 as claimed: generate_qr_image fails with ValueError "Center image   *)
(* data is not valid base64." exactly when the center image data is not    *)
(* empty and not valid base64, with ValueError "Center image data is not   *)
(* a valid image." exactly when the data is valid base64 of bytes that     *)
(* are not a loadable image, and returns an image without raising when     *)
(* the data is None or empty.                                              *)
(***************************************************************************)
C15_CenterImageErrors ==
    op = "generate_qr_image" =>
        /\ exc = "ValueError: Center image data is not valid base64."
             <=> (CenterImageGiven /\ ~ValidBase64(CenterImageData))
        /\ exc = "ValueError: Center image data is not a valid image."
             <=> /\ CenterImageGiven
                 /\ ValidBase64(CenterImageData)
                 /\ Utf8Encode(DecodedText(CenterImageData)) \notin ImageFiles
        /\ ~CenterImageGiven => exc = "none" /\ ret.width = DEFAULT_QR_SIZE

(***************************************************************************)
(* C16: _compose_qr_with_header given an empty or whitespace-only header   *)
(* returns the very image object it was given; given any other header it   *)
(* returns a new image as wide as the one given and higher by the height   *)
(* of the header text plus 64 pixels, hence strictly higher.               *)
(***************************************************************************)
C16_ComposeHeader ==
    op = "_compose_qr_with_header" =>
        LET image == arg.value.image
            header == arg.value.header
            text_height == arg.value.bbox[4] - arg.value.bbox[2]
        IN  IF \A i \in 1..Len(header) : header[i] \in Whitespace
            THEN ret = image
            ELSE /\ ret.id # image.id
                 /\ ret.width = image.width
                 /\ ret.height = image.height + text_height + 64
                 /\ ret.height > image.height

\* a header of whitespace has given the image back, and a header with
\* spaces around a name a higher image
C16_Witness ==
    /\ op = "_compose_qr_with_header"
    /\ \/ arg.value.header = Chars(" \t") /\ ret.id = arg.value.image.id
       \/ /\ arg.value.header = Chars(" HQ ")
          /\ arg.value.bbox = <<0, 11, 52, 46>>
          /\ ret.height = arg.value.image.height + 99

\* the records of the rows of the table of window w, as _row_to_config
\* reads them
TableRecords(w) == [i \in 1..Len(w.network_table) |-> _row_to_config(w.network_table[i])]

\* the records of the rows that are selected, in the order of the table
SelectedRecords(w) ==
    LET records == TableRecords(w)
        upto[i \in 0..Len(records)] ==
            IF i = 0 THEN <<>>
            ELSE IF i \in w.selected THEN Append(upto[i - 1], records[i])
            ELSE upto[i - 1]
    IN  upto[Len(records)]

\* this step is a Load of the file the Save that has just run wrote
LoadOfSavedFile ==
    /\ op \in {"_save", "_save_as"}
    /\ written # <<>>
    /\ op' = "_load"
    /\ arg'.value.path = written[1].path

LoadedData == files[arg.value.path]

\* entry[key], or default when the entry has no such key
ValueOr(entry, key, default) == IF key \in DOMAIN entry THEN entry[key] ELSE default

(***************************************************************************)
(* C18 as claimed: loading a JSON list replaces the table by exactly one   *)
(* row per entry in file order, and reading row i back with                *)
(* _row_to_config yields entry i's location, ssid, password, security,     *)
(* hidden and image_data, where a missing key is replaced by its default:  *)
(* empty string for location, ssid and password, the first security        *)
(* option for security, false for hidden and no image for image_data.      *)
(***************************************************************************)
C18_LoadYieldsEntries ==
    (op = "_load" /\ arg.value.path # <<>>) =>
        /\ Len(window.network_table) = Len(LoadedData)
        /\ \A i \in 1..Len(LoadedData) :
              LET entry == LoadedData[i]
                  config == _row_to_config(window.network_table[i])
              IN  /\ config.location = ValueOr(entry, "location", <<>>)
                  /\ config.ssid = ValueOr(entry, "ssid", <<>>)
                  /\ config.password = ValueOr(entry, "password", <<>>)
                  /\ config.security = ValueOr(entry, "security", Chars("WPA/WPA2/WPA3"))
                  /\ config.hidden = ValueOr(entry, "hidden", FALSE)
                  /\ config.image_data = ValueOr(entry, "image_data", None)

(***************************************************************************)
(* C18: loading a JSON list replaces the table by exactly one row per      *)
(* entry in file order, and reading row i back with _row_to_config yields  *)
(* entry i's password and hidden, its location and ssid without the        *)
(* whitespace around them, its security when that is one of the three      *)
(* security options and the first option otherwise, and its image_data     *)
(* when that is a text that is not empty and no image otherwise; a         *)
(* missing key is replaced by its default, as claimed.                     *)
(***************************************************************************)
C18_LoadYieldsNormalisedEntries ==
    (op = "_load" /\ arg.value.path # <<>>) =>
        /\ Len(window.network_table) = Len(LoadedData)
        /\ \A i \in 1..Len(LoadedData) :
              LET entry == LoadedData[i]
                  config == _row_to_config(window.network_table[i])
                  security == ValueOr(entry, "security", Chars("WPA/WPA2/WPA3"))
                  image_data == ValueOr(entry, "image_data", None)
              IN  /\ config.location = Strip(ValueOr(entry, "location", <<>>))
                  /\ config.ssid = Strip(ValueOr(entry, "ssid", <<>>))
                  /\ config.password = ValueOr(entry, "password", <<>>)
                  /\ config.security =
                        IF security \in {Chars("WPA/WPA2/WPA3"), Chars("WEP"), Chars("None")}
                        THEN security ELSE Chars("WPA/WPA2/WPA3")
                  /\ config.hidden = ValueOr(entry, "hidden", FALSE)
                  /\ config.image_data = IF image_data = <<>> THEN None ELSE image_data

\* the list written by hand was loaded: its first entry has neither a
\* security nor a hidden key, its second a security that is no option
C18_Witness ==
    /\ op = "_load"
    /\ arg.value.path = InPath
    /\ Len(LoadedData) = 2
    /\ "security" \notin DOMAIN LoadedData[1]
    /\ "hidden" \notin DOMAIN LoadedData[1]
    /\ "security" \in DOMAIN LoadedData[2]
    /\ LoadedData[2].security = Chars("wpa2")
    /\ Len(window.network_table) = 2
    /\ _row_to_config(window.network_table[1]).hidden = FALSE

(***************************************************************************)
(* C19 as claimed: whenever the encoding core raises during an operation   *)
(* started from the window, whether preview refresh, single PNG, PDF,      *)
(* script or profile export or batch export, the handler catches the       *)
(* error, shows a dialog and returns normally: no such error propagates    *)
(* out of a handler of the window.                                         *)
(***************************************************************************)
C19_HandlersCatchCoreErrors ==
    op \in {"_refresh_preview_now", "_export_png", "_export_pdf",
            "_export_windows_script", "_export_macos_profile", "_batch_export"}
        => exc = "none"

\* the networks the files of a batch export hold, in the order written
RECURSIVE ExportedConfigs(_)
ExportedConfigs(files_written) ==
    IF files_written = <<>> THEN <<>>
    ELSE Head(files_written).configs \o ExportedConfigs(Tail(files_written))

(***************************************************************************)
(* C20 as claimed: batch export exports exactly the selected table rows    *)
(* when at least one row is selected, and exactly the current form         *)
(* network when no row is selected.                                        *)
(***************************************************************************)
C20_BatchExportsSelectionOrForm ==
    (op = "_batch_export" /\ exc = "none" /\ written # <<>>) =>
        ExportedConfigs(written) =
            IF window.selected # {} THEN SelectedRecords(window) ELSE <<window._config>>

(***************************************************************************)
(* C26: the three output formats agree on when a network is open: for      *)
(* every security label and every password, the Wi-Fi payload omits the P  *)
(* field if and only if the Windows WLAN profile omits the <sharedKey>     *)
(* element, if and only if the macOS payload omits the Password key.       *)
(***************************************************************************)
C26_FormatsAgreeOnOpen ==
    op = "build_wifi_payload" =>
        LET payload_omits == ~Contains(ret, Chars(";P:"))
            windows_omits == ~Contains(build_wlan_profile_xml(arg.value), Chars("<sharedKey>"))
            macos_omits ==
                ~Contains(_build_wifi_payload(arg.value, Chars("id"), Chars("uuid")),
                          Chars("<key>Password</key>"))
        IN  /\ payload_omits <=> windows_omits
            /\ windows_omits <=> macos_omits

\* an open network given with a password has the P field in no format, and
\* a WPA network given without one has it, empty, in the payload
C26_Witness ==
    /\ op = "build_wifi_payload"
    /\ \/ /\ arg.value.security = Chars(" Open ")
          /\ arg.value.password = Chars("secret")
          /\ ~Contains(ret, Chars(";P:"))
          /\ ~Contains(build_wlan_profile_xml(arg.value), Chars("<sharedKey>"))
       \/ /\ arg.value.security = Chars("WPA/WPA2/WPA3")
          /\ arg.value.password = <<>>
          /\ Contains(ret, Chars(";P:;H:"))
          /\ Contains(build_wlan_profile_xml(arg.value), Chars("<keyMaterial></keyMaterial>"))

\* the SSID a Windows script connects to: that of the network, or of the
\* last network of the list
ConnectSsid ==
    IF op = "build_windows_connect_script" THEN arg.value.ssid
    ELSE arg.value[Len(arg.value)].ssid

EndsWith(text, suffix) ==
    /\ Len(suffix) <= Len(text)
    /\ SubSeq(text, Len(text) - Len(suffix) + 1, Len(text)) = suffix

(***************************************************************************)
(* C27 as claimed: in both Windows script builders the connect line is     *)
(* exactly netsh wlan connect name=" + S + " where the name argument S is  *)
(* a single quoted token: for every SSID the line contains exactly two     *)
(* double-quote characters, so no SSID text can end the quoted argument    *)
(* or append further text to the command.                                  *)
(***************************************************************************)
C27_ConnectNameIsOneToken ==
    ScriptBuilt =>
        LET line == Chars("netsh wlan connect name=\"") \o ConnectSsid \o Chars("\"")
        IN  /\ EndsWith(ret.content, CRLF \o line \o CRLF \o Chars("endlocal") \o CRLF)
            /\ CountIn(line, {"\""}) = 2

(***************************************************************************)
(* C30 as claimed: a PNG or PDF batch export of N networks into an empty   *)
(* folder, when it completes, leaves N distinct files there, one per       *)
(* exported network: the file written for one network is never             *)
(* overwritten by the file of another network of the same batch, whatever  *)
(* the SSIDs are.                                                          *)
(***************************************************************************)
C30_BatchFilesDistinct ==
    ( /\ op = "_batch_export"
      /\ arg.value.export_type \in {"PNG", "PDF"}
      /\ exc = "none" )
        => \A i, j \in 1..Len(written) : written[i].path = written[j].path => i = j

\* the network the form holds: its fields and the center image picked
FormConfig ==
    [location |-> Strip(window.location_input),
     ssid |-> Strip(window.ssid_input),
     password |-> window.password_input,
     security |-> window.security_input,
     hidden |-> window.hidden_input,
     image_data |-> window._config.image_data]

\* a preview refresh has just run
Refreshed == op = "_refresh_preview_now"

(***************************************************************************)
(* C22: after a preview refresh with an empty SSID the current pixmap is   *)
(* cleared, the current payload and the payload label are empty and all    *)
(* six print/export buttons are disabled; after a refresh in which QR      *)
(* generation raises (the refresh shows its message box), the six buttons  *)
(* are disabled; after a refresh with a non-empty SSID that succeeds, the  *)
(* buttons are enabled and the payload label equals build_wifi_payload of  *)
(* the form's config.                                                      *)
(***************************************************************************)
C22_RefreshOutcomes ==
    Refreshed =>
        /\ exc = "none"
        /\ FormConfig.ssid = <<>> =>
              /\ window._current_pixmap = NoPixmap
              /\ window._current_payload = <<>>
              /\ window.payload_label = <<>>
              /\ ~window.actions_enabled
              /\ shown = <<>>
        /\ shown # <<>> =>
              /\ shown = <<MessageBox("critical", "QR generation failed",
                                      generate_qr_image(build_wifi_payload(FormConfig),
                                                        DEFAULT_QR_SIZE,
                                                        FormConfig.image_data).message)>>
              /\ ~window.actions_enabled
        /\ (FormConfig.ssid # <<>> /\ shown = <<>>) =>
              /\ window.actions_enabled
              /\ window.payload_label = build_wifi_payload(FormConfig)

\* the network of in.json, whose image data is not base64, was loaded into
\* the form and the refresh that followed showed the message and disabled
\* the buttons
C22_Witness ==
    /\ Refreshed
    /\ FormConfig.ssid = Chars("Guest")
    /\ FormConfig.image_data = Chars("!!!")
    /\ shown # <<>>
    /\ shown[1].text = "Center image data is not valid base64."
    /\ ~window.actions_enabled

\* the window's current pixmap is the rendering of its current payload
\* with the center image, the header setting and the location noted with it
PixmapShowsCurrent ==
    LET qr == generate_qr_image(window._current_payload, DEFAULT_QR_SIZE,
                                window._last_image_data)
    IN  /\ qr.raised = "none"
        /\ \E bbox \in UiTextBoxes :
              window._current_pixmap =
                  IF window._last_header_state /\ window._last_location # <<>>
                  THEN _compose_qr_with_header(qr.image, window._last_location, bbox)
                  ELSE qr.image

(***************************************************************************)
(* C23 as claimed: in every reachable state of the main window in which    *)
(* the print/export buttons are enabled (and there is a pixmap), the       *)
(* current preview pixmap is the rendering of the current payload with     *)
(* the current center image and header settings; in particular, after a    *)
(* refresh whose QR generation failed, no later refresh enables the        *)
(* buttons while the pixmap of an earlier, different payload or image is   *)
(* still the current pixmap.                                               *)
(***************************************************************************)
C23_EnabledPixmapIsCurrent ==
    (window.actions_enabled /\ window._current_pixmap # NoPixmap) => PixmapShowsCurrent

\* this step is a preview refresh: the timeout of the running timer
RefreshStep ==
    /\ window._preview_timer
    /\ ~window'._preview_timer
    /\ op' = "_refresh_preview_now"

\* a value the refresh works from differs from the one noted at the last
\* generation, or there is no pixmap
GenerationInputsChanged ==
    \/ build_wifi_payload(FormConfig) # window._current_payload
    \/ window.show_header_input # window._last_header_state
    \/ FormConfig.location # window._last_location
    \/ FormConfig.image_data # window._last_image_data
    \/ window._current_pixmap = NoPixmap

\* the pixmap drawn from the form as it is
FormRendering ==
    LET qr == generate_qr_image(build_wifi_payload(FormConfig), DEFAULT_QR_SIZE,
                                FormConfig.image_data)
    IN  IF qr.raised # "none" THEN NoPixmap
        ELSE IF window.show_header_input /\ FormConfig.location # <<>>
        THEN _compose_qr_with_header(qr.image, FormConfig.location,
                                     CHOOSE bbox \in UiTextBoxes : TRUE)
        ELSE qr.image

(***************************************************************************)
(* C25: a preview refresh with a non-empty SSID regenerates the pixmap     *)
(* exactly when the payload, the show-header state, the location or the    *)
(* center image data differs from the values used for the last generation  *)
(* (those noted when a generation was last started), or when there is no   *)
(* current pixmap: it then runs the generation, which gives the new        *)
(* current pixmap or, when it raises, the message box; when none of these  *)
(* changed, the refresh leaves the current pixmap unchanged and generates  *)
(* nothing.                                                                *)
(***************************************************************************)
C25_RegeneratesWhenChanged ==
    [][ (RefreshStep /\ FormConfig.ssid # <<>>) =>
            IF GenerationInputsChanged
            THEN \/ /\ FormRendering # NoPixmap
                    /\ window'._current_pixmap = FormRendering
                    /\ shown' = <<>>
                 \/ /\ FormRendering = NoPixmap
                    /\ window'._current_pixmap = window._current_pixmap
                    /\ shown' # <<>>
            ELSE /\ window'._current_pixmap = window._current_pixmap
                 /\ shown' = <<>> ]_vars

\* the location was typed after the QR code of the SSID was drawn, and the
\* refresh drew the code anew with the header above it
C25_Witness ==
    /\ Refreshed
    /\ events = 2
    /\ FormConfig.ssid = Chars("Office")
    /\ FormConfig.location = Chars("HQ")
    /\ window._last_location = Chars("HQ")
    /\ window._current_pixmap.height > DEFAULT_QR_SIZE
    /\ window._last_preview_size = <<320, 320>>

\* this step is an edit of the form
EditStep == events' = events + 1

\* what an edit and a timeout do to the timer and the preview: an edit
\* starts the full time anew and refreshes nothing; a refresh runs only
\* when the full time has passed since the last edit, and stops the timer
DebounceSteps ==
    /\ EditStep =>
          /\ window'._preview_timer
          /\ remainingTime' = PREVIEW_DEBOUNCE_MS
          /\ op' # "_refresh_preview_now"
          /\ window'.payload_label = window.payload_label
          /\ window'._current_pixmap = window._current_pixmap
          /\ window'._current_payload = window._current_payload
    /\ op' # op /\ op' = "_refresh_preview_now" =>
          /\ window._preview_timer
          /\ remainingTime = 0
          /\ ~window'._preview_timer

\* the timer has stopped with a refresh
RefreshDone == Refreshed /\ ~window._preview_timer

(***************************************************************************)
(* C24 as claimed: every edit of a form field (SSID, location, password,   *)
(* security, hidden, show-header) restarts a single-shot 180 ms timer      *)
(* instead of refreshing at once: edits that arrive less than 180 ms       *)
(* apart cause no refresh between them, and once edits stop exactly one    *)
(* refresh eventually runs, after which the payload label shows the        *)
(* payload of the final form values.                                       *)
(***************************************************************************)
C24_DebounceThenPayloadShown ==
    /\ [][DebounceSteps]_vars
    /\ window._preview_timer
          ~> (RefreshDone /\ window.payload_label = build_wifi_payload(FormConfig))

(***************************************************************************)
(* C24: every edit of a form field restarts the single-shot timer of 180   *)
(* ms instead of refreshing at once, so that no refresh runs until 180 ms  *)
(* have passed since the last edit, and once edits stop one refresh        *)
(* eventually runs and stops the timer; after it the payload label shows   *)
(* the payload of the final form values when their SSID is not empty and   *)
(* the generation did not raise, is empty when the SSID is empty, and is   *)
(* left as it was when the generation raised.                              *)
(***************************************************************************)
C24_DebounceThenRefresh ==
    /\ [][DebounceSteps]_vars
    /\ [][ (op' # op /\ op' = "_refresh_preview_now" /\ shown' # <<>>) =>
               window'.payload_label = window.payload_label ]_vars
    /\ window._preview_timer
          ~> /\ RefreshDone
             /\ FormConfig.ssid = <<>> => window.payload_label = <<>>
             /\ (FormConfig.ssid # <<>> /\ shown = <<>>) =>
                    window.payload_label = build_wifi_payload(FormConfig)

\* the SSID was typed and the hidden box ticked, the timer ran out once
\* after the second edit and the label shows the payload of both
C24_Witness ==
    /\ RefreshDone
    /\ events = 2
    /\ FormConfig.ssid = Chars("Office")
    /\ FormConfig.hidden
    /\ window.payload_label = Chars("WIFI:T:WPA;S:Office;P:;H:true;;")
    /\ remainingTime = 0

(***************************************************************************)
(* C28: after any sequence of add-to-table, delete-selected and load, the  *)
(* visibility-toggle button of a row acts on that same row: the row its    *)
(* click handler is called with is the row the button is in.               *)
(***************************************************************************)
C28_ToggleActsOnItsRow ==
    \A r \in 1..Len(window.network_table) : window.network_table[r].toggle_row = r - 1

\* the query of the search box as _apply_search_filter reads it
SearchQuery == Lower(Strip(window.search_input))

(***************************************************************************)
(* C29: after any sequence of search, find-next, find-previous,            *)
(* add-to-table, delete-selected and load, the search index is -1 exactly  *)
(* when the match list is empty and otherwise lies in 0..len-1, and every  *)
(* match is a row of the table whose location or SSID contains the query.  *)
(***************************************************************************)
C29_SearchMatchesAreCurrent ==
    /\ window._search_index = NO_SEARCH_INDEX <=> window._search_matches = <<>>
    /\ window._search_matches # <<>> =>
           window._search_index \in 0..(Len(window._search_matches) - 1)
    /\ \A k \in 1..Len(window._search_matches) :
           LET row == window._search_matches[k]
           IN  /\ row + 1 \in 1..Len(window.network_table)
               /\ SearchQuery # <<>>
               /\ RowMatches(window.network_table[row + 1], SearchQuery)

====
